---- MODULE Spec2Model ----
(***************************************************************************)
(* A model of goboot's orchestration and materialization core:             *)
(*   - serviceManager (pkg/goboot/service.go): register, runAll and its    *)
(*     phases assignConfigs / runPriorServices / main loop /               *)
(*     runSubsequentServices;                                              *)
(*   - BaseLocal's script registry (pkg/baselocal/baseLocal.go):           *)
(*     SetConfig, RegisterLines, RegisterFile, Run/copyFiles;              *)
(*   - BaseLint.registerScripts and BaseTest.registerScripts;              *)
(*   - EnsureDir / isPathEscapingRoot (pkg/utils/utils.go);                *)
(*   - the two-pass walker of BaseProject and BaseTest, on an empty and on *)
(*     a shared output root;                                               *)
(*   - SetConfig of the generator modules, ComparePaths and CreateRootDir; *)
(*   - the root handles the modules' Run opens and closes;                 *)
(*   - GoBoot.RegisterServices (registerPreServices,                       *)
(*     registerMainServices) and RunServices;                              *)
(*   - ExecuteTemplateText (pkg/gobootutils/template.go);                  *)
(*   - config.Manager.Register (pkg/config/manager.go).                    *)
(***************************************************************************)
EXTENDS Integers, Sequences, FiniteSets, TLC

(***************************************************************************)
(* Bounds of the model.                                                    *)
(***************************************************************************)
\* number of serviceManager.register calls made before runAll
MaxRegister == 4
\* number of calls made on a stand-alone registrar
MaxRegCalls == 4
\* longest FileList handed to BaseLocal.SetConfig
MaxFileList == 1
\* number of calls made on a stand-alone output root
MaxDirCalls == 2
\* largest number of segments of a relative path handed to EnsureDir
MaxPathLen == 3
\* number of Register calls on the config manager
MaxMgrCalls == 3
\* longest template text, in atoms
MaxTextLen == 3
\* longest list of service declarations
MaxDecls == 2
\* longest target path, in segments
MaxTargetLen == 2
\* largest number of entries of a source template tree
MaxSrcEntries == 2
\* longest FileList of line channels handed to BaseLocal.SetConfig
MaxLineChannels == 2

VARIABLES
    \* ---- serviceManager -------------------------------------------------
    services,      \* sm.services: id -> service instance, or None
    cfgRegistrars, \* config.Manager: ids retrievable with GetRegistrar
    cfgServices,   \* config.Manager: ids retrievable with GetService
    nRegister,     \* number of register calls made so far
    firstReg,      \* history: id -> the instance whose register call first succeeded
    lastRegister,  \* history: the last register call [svc, err, before]
    pc,            \* position of the orchestrator: idle, assign, prior, main, subsequent, done
    visited,       \* ids already visited by the loop of the current phase
    configSet,     \* ids whose SetConfig was invoked
    script,        \* ids of services whose script field holds the registrar
    result,        \* what runAll returned: none, ok, err, panic
    log,           \* history: the calls runAll made, in order
    openRoots,     \* ids of the modules whose Run left its *os.Root open
    \* ---- BaseLocal (registrar) -----------------------------------------
    registry,      \* b.cfg.FileList and the four scriptRegistry maps
    lastCall,      \* history: the last call made on a stand-alone registrar
    nCalls,        \* number of calls made on a stand-alone registrar
    usedKeys,      \* history: <<op, key>> of the Register calls that returned
    out,           \* files the registrar rendered into the output root
    \* ---- two runs on identical inputs -----------------------------------
    runNo,         \* 1 during the first run, 2 during the second
    prevOut,       \* output tree of the first run
    prevResult,    \* result of the first run
    \* ---- the output root (os.Root) --------------------------------------
    root,          \* the tree below the root: path -> [kind, content]
    lastDir,       \* history: the last call on the root [op, path, err, before,
                   \* again, prevErr]
    nDirCalls,     \* number of calls made on a stand-alone output root
    \* ---- the two-pass walker of a generator module ----------------------
    src,           \* the source template tree: path -> [kind, content]
    walker,        \* the module that walks: [id, style]
    wpc,           \* position of the walker: setup, pass1, pass2, done
    todo,          \* entries the walk of the current pass has yet to visit
    wresult,       \* what the module's Run returned: none, ok, or the error
    walkHist,      \* history: the output root when Run began and when pass 1 returned
    \* ---- single calls on a module --------------------------------------
    lastSetConfig, \* history: the last SetConfig call on a generator module
    lastLint,      \* history: the last Run of a stand-alone lint module
    boot,          \* GoBoot: the declarations and what RegisterServices returned
    lastRender,    \* history: the last ExecuteTemplateText call [text, ctx, err, out]
    mgr            \* config.Manager: cm.services, with the history of its Register calls

orchVars == <<services, cfgRegistrars, cfgServices, nRegister, firstReg, lastRegister,
              pc, visited, configSet, script, result, log, openRoots>>
regVars == <<registry, lastCall, nCalls, usedKeys, out>>
twoVars == <<runNo, prevOut, prevResult>>
dirVars == <<root, lastDir, nDirCalls>>
walkVars == <<src, walker, wpc, todo, wresult, walkHist>>
callVars == <<lastSetConfig, lastLint, boot, lastRender, mgr>>

vars == <<orchVars, regVars, twoVars, dirVars, walkVars, callVars>>

(***************************************************************************)
(* Identifiers (pkg/goboottypes).                                          *)
(***************************************************************************)
ServiceNameBaseProject == "base_project"
ServiceNameBaseLint == "base_lint"
ServiceNameBaseTest == "base_test"
ServiceNameBaseLocal == "base_local"

ScriptNameMake == "make"
ScriptNameTask == "task"
ScriptNameScript == "script"
ScriptNameCommit == "commit"

ScriptFileLint == "lint.sh"
ScriptFileTest == "test.sh"

IDs == {ServiceNameBaseProject, ServiceNameBaseLint, ServiceNameBaseTest, ServiceNameBaseLocal}

None == "none"

\* a phase list that runs the registrar first instead of last
priorServiceIDsWithLocal == <<ServiceNameBaseProject, ServiceNameBaseLocal>>

\* newServiceManager: the hardcoded phase lists
priorServiceIDs == <<ServiceNameBaseProject>>
subsequentServiceIDs == <<ServiceNameBaseLocal>>

(***************************************************************************)
(* Generic helpers on maps (Go map[string]T as a function with a finite    *)
(* domain) and sequences.                                                  *)
(***************************************************************************)
EmptyMap == [k \in {} |-> <<>>]

MapPut(m, k, v) == [x \in (DOMAIN m) \cup {k} |-> IF x = k THEN v ELSE m[x]]

Range(s) == {s[i] : i \in DOMAIN s}

\* all orders in which a Go `range` over a map with key set S may visit it
Perms(S) == {p \in [1..Cardinality(S) -> S] : \A a \in S : \E i \in DOMAIN p : p[i] = a}

(***************************************************************************)
(* BaseLocal: the script registrar (pkg/baselocal/baseLocal.go).           *)
(* hasCfg tells whether b.cfg is non-nil; FileList is b.cfg.FileList.      *)
(***************************************************************************)
NewBaseLocal ==
    [hasCfg |-> FALSE, FileList |-> <<>>,
     MakeScripts |-> EmptyMap, TaskScripts |-> EmptyMap,
     CommitScripts |-> EmptyMap, ScriptFiles |-> EmptyMap]

\* result of a registrar call: the registrar afterwards, the error flag, and
\* whether the call dereferenced the nil b.cfg
RegResult(b, err, panic) == [b |-> b, err |-> err, panic |-> panic]

\* a RegisterLines without the presence checks: a later call overwrites
RECURSIVE RegisterLinesFromOverwrite(_, _, _, _)
RegisterLinesFromOverwrite(b, name, lines, i) ==
    IF i > Len(b.FileList) THEN RegResult(b, FALSE, FALSE)
    ELSE LET entry == b.FileList[i] IN
         CASE entry = ScriptNameMake ->
                  RegisterLinesFromOverwrite([b EXCEPT !.MakeScripts = MapPut(@, name, lines)],
                                             name, lines, i + 1)
           [] entry = ScriptNameTask ->
                  RegisterLinesFromOverwrite([b EXCEPT !.TaskScripts = MapPut(@, name, lines)],
                                             name, lines, i + 1)
           [] entry = ScriptNameCommit ->
                  RegisterLinesFromOverwrite([b EXCEPT !.CommitScripts = MapPut(@, name, lines)],
                                             name, lines, i + 1)
           [] OTHER -> RegisterLinesFromOverwrite(b, name, lines, i + 1)

RECURSIVE RegisterLinesFrom(_, _, _, _)
RegisterLinesFrom(b, name, lines, i) ==
    IF i > Len(b.FileList) THEN RegResult(b, FALSE, FALSE)
    ELSE LET entry == b.FileList[i] IN
         CASE entry = ScriptNameMake ->
                  IF name \in DOMAIN b.MakeScripts
                  THEN RegResult(b, TRUE, FALSE)
                  ELSE RegisterLinesFrom([b EXCEPT !.MakeScripts = MapPut(@, name, lines)],
                                         name, lines, i + 1)
           [] entry = ScriptNameTask ->
                  IF name \in DOMAIN b.TaskScripts
                  THEN RegResult(b, TRUE, FALSE)
                  ELSE RegisterLinesFrom([b EXCEPT !.TaskScripts = MapPut(@, name, lines)],
                                         name, lines, i + 1)
           [] entry = ScriptNameCommit ->
                  IF name \in DOMAIN b.CommitScripts
                  THEN RegResult(b, TRUE, FALSE)
                  ELSE RegisterLinesFrom([b EXCEPT !.CommitScripts = MapPut(@, name, lines)],
                                         name, lines, i + 1)
           [] OTHER -> RegisterLinesFrom(b, name, lines, i + 1)

RegisterLines(b, name, lines) ==
    IF ~b.hasCfg THEN RegResult(b, FALSE, TRUE)
    ELSE RegisterLinesFrom(b, name, lines, 1)

RECURSIVE RegisterFileFrom(_, _, _, _)
RegisterFileFrom(b, name, lines, i) ==
    IF i > Len(b.FileList) THEN RegResult(b, FALSE, FALSE)
    ELSE IF b.FileList[i] = ScriptNameScript
         THEN IF name \in DOMAIN b.ScriptFiles
              THEN RegResult(b, TRUE, FALSE)
              ELSE RegisterFileFrom([b EXCEPT !.ScriptFiles = MapPut(@, name, lines)],
                                    name, lines, i + 1)
         ELSE RegisterFileFrom(b, name, lines, i + 1)

\* a RegisterFile that stores the file whatever the FileList says
RegisterFileAnyChannel(b, name, lines) ==
    IF ~b.hasCfg THEN RegResult(b, FALSE, TRUE)
    ELSE RegResult([b EXCEPT !.ScriptFiles = MapPut(@, name, lines)], FALSE, FALSE)

RegisterFile(b, name, lines) ==
    IF ~b.hasCfg THEN RegResult(b, FALSE, TRUE)
    ELSE RegisterFileFrom(b, name, lines, 1)

\* BaseLocal.SetConfig: stores the configuration (its FileList) before the
\* path comparison, so the assignment happens whether or not it fails.
LocalSetConfig(b, fileList) == [b EXCEPT !.hasCfg = TRUE, !.FileList = fileList]

(***************************************************************************)
(* The template texts of the local-scripts module, as token sequences, and *)
(* their rendering against the scriptRegistry (RenderTemplateToFile with   *)
(* b.scriptRegistry as data): a literal renders as itself, a `range` over  *)
(* `index .<Map> "<key>"` renders the registered lines in their stored     *)
(* order, `len (index .<Map> "<key>")` renders their number.               *)
(***************************************************************************)
Lit(v) == [t |-> "lit", v |-> v, m |-> "", k |-> ""]
LinesOf(m, k) == [t |-> "lines", v |-> "", m |-> m, k |-> k]
LenOf(m, k) == [t |-> "len", v |-> "", m |-> m, k |-> k]

Digits == <<"0", "1", "2", "3", "4", "5", "6", "7", "8", "9">>

LocalTemplates ==
    [f \in {"Makefile", "Taskfile.yml", ".pre-commit-config.yaml",
            "scripts/lint.sh", "scripts/test.sh"} |->
        CASE f = "Makefile" ->
                 <<Lit("lint:"), LinesOf("MakeScripts", ServiceNameBaseLint),
                   Lit("test:"), LinesOf("MakeScripts", ServiceNameBaseTest)>>
          [] f = "Taskfile.yml" ->
                 <<Lit("tasks:"), LenOf("TaskScripts", ServiceNameBaseLint),
                   LinesOf("TaskScripts", ServiceNameBaseTest)>>
          [] f = ".pre-commit-config.yaml" ->
                 <<Lit("repos:"), LinesOf("CommitScripts", ServiceNameBaseLint)>>
          [] f = "scripts/lint.sh" ->
                 <<Lit("#!lint"), LinesOf("ScriptFiles", ScriptFileLint)>>
          [] OTHER ->
                 <<Lit("#!test"), LinesOf("ScriptFiles", ScriptFileTest)>>]

\* `index .<Map> "<key>"`: the registered lines, the empty list for a missing key
IndexOf(b, m, k) ==
    LET mp == CASE m = "MakeScripts" -> b.MakeScripts
                [] m = "TaskScripts" -> b.TaskScripts
                [] m = "CommitScripts" -> b.CommitScripts
                [] OTHER -> b.ScriptFiles
    IN IF k \in DOMAIN mp THEN mp[k] ELSE <<>>

RECURSIVE RenderRegistry(_, _)
RenderRegistry(tmpl, b) ==
    IF tmpl = <<>> THEN <<>>
    ELSE LET tok == Head(tmpl)
             piece == CASE tok.t = "lit" -> <<tok.v>>
                        [] tok.t = "lines" -> IndexOf(b, tok.m, tok.k)
                        [] OTHER -> <<Digits[Len(IndexOf(b, tok.m, tok.k)) + 1]>>
         IN piece \o RenderRegistry(Tail(tmpl), b)

\* BaseLocal.copyFile: copy "<fileName>.tmpl" into the root and render it in
\* place; a missing template is an error.
LocalCopyFile(b, files, fileName) ==
    IF fileName \notin DOMAIN LocalTemplates
    THEN [files |-> files, err |-> TRUE]
    ELSE [files |-> MapPut(files, fileName, RenderRegistry(LocalTemplates[fileName], b)),
          err |-> FALSE]

\* the loop `for fileName := range b.ScriptFiles` visiting the keys in `order`
RECURSIVE CopyScriptFiles(_, _, _, _)
CopyScriptFiles(b, files, order, i) ==
    IF i > Len(order) THEN [files |-> files, err |-> FALSE]
    ELSE LET r == LocalCopyFile(b, files, "scripts/" \o order[i])
         IN IF r.err THEN r ELSE CopyScriptFiles(b, r.files, order, i + 1)

\* BaseLocal.copyFiles: one pass over b.cfg.FileList
RECURSIVE CopyFilesFrom(_, _, _, _)
CopyFilesFrom(b, files, order, i) ==
    IF i > Len(b.FileList) THEN [files |-> files, err |-> FALSE]
    ELSE LET entry == b.FileList[i]
             r == CASE entry = ScriptNameMake -> LocalCopyFile(b, files, "Makefile")
                    [] entry = ScriptNameTask -> LocalCopyFile(b, files, "Taskfile.yml")
                    [] entry = ScriptNameCommit ->
                           LocalCopyFile(b, files, ".pre-commit-config.yaml")
                    [] entry = ScriptNameScript ->
                           IF b.ScriptFiles # EmptyMap
                           THEN CopyScriptFiles(b, files, order, 1)
                           ELSE [files |-> files, err |-> FALSE]
                    [] OTHER -> [files |-> files, err |-> FALSE]
         IN IF r.err THEN r ELSE CopyFilesFrom(b, r.files, order, i + 1)

copyFiles(b, files, order) == CopyFilesFrom(b, files, order, 1)

(***************************************************************************)
(* Service instances.  A service is identified by the id it reports, the   *)
(* optional interfaces its type implements (kind) and its identity (gen:   *)
(* 1 for the first instance offered under an id, 2 for any later one).     *)
(*   plain     - implements Service only (BaseProject, test doubles)       *)
(*   receiver  - also implements ScriptReceiver (BaseLint, BaseTest)       *)
(*   registrar - also implements Registrar (BaseLocal)                     *)
(***************************************************************************)
NoService == [id |-> None, kind |-> None, gen |-> 0]

KindsOf(id) ==
    CASE id = ServiceNameBaseProject -> {"plain"}
      [] id = ServiceNameBaseLint -> {"receiver", "plain"}
      [] id = ServiceNameBaseTest -> {"receiver"}
      [] OTHER -> {"registrar", "plain"}

isScriptRec(svc) == svc.kind = "receiver"
\* a type assertion that takes whatever is (or is not) registered for a Registrar
isRegistrarAlways(svc) == TRUE

isRegistrar(svc) == svc.kind = "registrar"

Registered(sv) == {id \in IDs : sv[id] # NoService}

\* a register that silently overwrites an existing entry
registerOverwrite(sv, svc) ==
    [services |-> [sv EXCEPT ![svc.id] = svc], err |-> FALSE]

\* serviceManager.register
register(sv, svc) ==
    IF sv[svc.id] # NoService
    THEN [services |-> sv, err |-> TRUE]
    ELSE [services |-> [sv EXCEPT ![svc.id] = svc], err |-> FALSE]

\* a main loop that forgets that the run-first modules have already run
isPriorServiceNever(id) == FALSE

isPriorService(id) == \E i \in DOMAIN priorServiceIDs : priorServiceIDs[i] = id
\* a main loop that forgets to leave the run-last modules to the last phase
isSubsequentServiceNever(id) == FALSE

isSubsequentService(id) == \E i \in DOMAIN subsequentServiceIDs : subsequentServiceIDs[i] = id

\* config.Manager lookups
GetRegistrar(id) == id \in cfgRegistrars
GetService(id) == id \in cfgServices
\* the lookup runAll and its helpers make: GetRegistrar first, then GetService
HasConfig(id) == GetRegistrar(id) \/ GetService(id)

(***************************************************************************)
(* Module configurations (inputs).                                         *)
(***************************************************************************)
\* BaseLintConfig.Linters: name -> [Enabled, Cmd]
Linters ==
    [n \in {"golang", "yaml"} |->
        IF n = "golang" THEN [Enabled |-> TRUE, Cmd |-> "golangci-lint run"]
        ELSE [Enabled |-> TRUE, Cmd |-> "yamllint ."]]

\* BaseTestConfig.TestCMD
TestCMD == "go test"

\* BaseLocalConfig.FileList
LocalFileList == <<ScriptNameMake, ScriptNameTask, ScriptNameCommit, ScriptNameScript>>

Event(ev, id) == [ev |-> ev, id |-> id]

\* BaseLint.registerScripts: the commands of the entries of b.cfg.Linters,
\* appended in the order the `range` over the map visits them
LintCmdsOf(linters, order) == [i \in DOMAIN order |-> linters[order[i]].Cmd]

LintCmds(order) == LintCmdsOf(Linters, order)

\* registerScripts of BaseLint and BaseTest: RegisterLines under the module
\* id, then RegisterFile under the script file name
registerScripts(b, id, cmds) ==
    LET file == IF id = ServiceNameBaseLint THEN ScriptFileLint ELSE ScriptFileTest
        r1 == RegisterLines(b, id, cmds)
        r2 == RegisterFile(r1.b, file, cmds)
    IN IF r1.panic \/ r1.err
       THEN [b |-> r1.b, err |-> r1.err, panic |-> r1.panic,
             events |-> <<Event("RegisterLines", id)>>]
       ELSE [b |-> r2.b, err |-> r2.err, panic |-> r2.panic,
             events |-> <<Event("RegisterLines", id), Event("RegisterFile", id)>>]

(***************************************************************************)
(* Run of one service.  env.fail: the module's own generation step fails   *)
(* (root creation, copy, render); env.lintOrder / env.fileOrder: the       *)
(* orders in which the maps b.cfg.Linters and b.ScriptFiles are ranged.    *)
(* The result carries the calls made, in order, for the log.               *)
(***************************************************************************)
RunResult(b, files, err, panic, events) ==
    [b |-> b, files |-> files, err |-> err, panic |-> panic, events |-> events]

Run(svc, hasScript, b, files, env) ==
    LET begin == <<Event("begin", svc.id)>>
        \* the return of Run: "end" for nil, "fail" for an error
        ret(err) == <<Event(IF err THEN "fail" ELSE "end", svc.id)>>
    IN CASE isRegistrar(svc) ->
                \* BaseLocal.Run: CreateRootDir, then copyFiles
                IF env.fail THEN RunResult(b, files, TRUE, FALSE, begin \o ret(TRUE))
                ELSE LET r == copyFiles(b, files, env.fileOrder)
                     IN RunResult(b, r.files, r.err, FALSE, begin \o ret(r.err))
         [] isScriptRec(svc) ->
                \* BaseLint.Run / BaseTest.Run: generate, then registerScripts
                \* when a registrar was injected
                IF env.fail THEN RunResult(b, files, TRUE, FALSE, begin \o ret(TRUE))
                ELSE IF ~hasScript THEN RunResult(b, files, FALSE, FALSE, begin \o ret(FALSE))
                ELSE LET cmds == IF svc.id = ServiceNameBaseLint
                                 THEN LintCmds(env.lintOrder) ELSE <<TestCMD>>
                         r == registerScripts(b, svc.id, cmds)
                     IN IF r.panic
                        THEN RunResult(r.b, files, FALSE, TRUE, begin \o r.events)
                        ELSE RunResult(r.b, files, r.err, FALSE,
                                       begin \o r.events \o ret(r.err))
         [] OTHER -> RunResult(b, files, env.fail, FALSE, begin \o ret(env.fail))

\* an orchestrator that records the error of svc.Run() but goes on
AfterRunGoOn(r, pcNow) ==
    IF r.panic THEN [pc |-> "done", result |-> "panic"]
    ELSE IF r.err THEN [pc |-> pcNow, result |-> "err"]
    ELSE [pc |-> pcNow, result |-> "none"]

\* what runAll does with the outcome of svc.Run(): an error is returned at
\* once (wrapped), a nil lets the loop go on; a panic ends the process
AfterRun(r, pcNow) ==
    IF r.panic THEN [pc |-> "done", result |-> "panic"]
    ELSE IF r.err THEN [pc |-> "done", result |-> "err"]
    ELSE [pc |-> pcNow, result |-> "none"]

Envs(b) ==
    [fail : BOOLEAN, lintOrder : Perms(DOMAIN Linters), fileOrder : Perms(DOMAIN b.ScriptFiles)]

(***************************************************************************)
(* Initial state: a fresh serviceManager (newServiceManager) bound to a    *)
(* config manager that already holds the validated configurations, and a   *)
(* fresh BaseLocal (NewBaseLocal).                                         *)
(***************************************************************************)
\* ids whose configuration the config manager files under its registrars
RegistrarConfigIDs == {ServiceNameBaseProject}

\* a fresh serviceManager whose config manager holds configurations for cfgd
FreshOrch(cfgd) ==
    /\ services = [id \in IDs |-> NoService]
    /\ cfgRegistrars = cfgd \cap RegistrarConfigIDs
    /\ cfgServices = cfgd \ RegistrarConfigIDs
    /\ nRegister = 0
    /\ firstReg = [id \in IDs |-> NoService]
    /\ lastRegister = [svc |-> NoService, err |-> FALSE, before |-> NoService]
    /\ pc = "idle"
    /\ visited = {}
    /\ configSet = {}
    /\ script = {}
    /\ result = "none"
    /\ log = <<>>
    /\ openRoots = {}

InitOrch == \E cfgd \in SUBSET IDs : FreshOrch(cfgd)

InitReg ==
    /\ registry = NewBaseLocal
    /\ lastCall = [op |-> None, key |-> None, lines |-> <<>>, err |-> FALSE,
                   panic |-> FALSE, reused |-> FALSE, before |-> NewBaseLocal]
    /\ nCalls = 0
    /\ usedKeys = {}
    /\ out = EmptyMap

InitTwo ==
    /\ runNo = 1
    /\ prevOut = EmptyMap
    /\ prevResult = "none"

InitDir ==
    /\ root = EmptyMap
    /\ lastDir = [op |-> None, path |-> <<>>, err |-> None, before |-> EmptyMap,
                  again |-> FALSE, prevErr |-> None]
    /\ nDirCalls = 0

InitWalk ==
    /\ src = EmptyMap
    /\ walker = [id |-> None, style |-> None]
    /\ wpc = "setup"
    /\ todo = <<>>
    /\ wresult = "none"
    /\ walkHist = [begin |-> EmptyMap, pass1 |-> EmptyMap]

\* a ServiceConfig: its ID(), which instance it is, and whether Validate passes
NoConfig == [id |-> None, instance |-> 0, valid |-> FALSE]

InitCall ==
    /\ lastSetConfig = [id |-> None, typed |-> FALSE, source |-> <<>>, target |-> <<>>,
                        err |-> None, ran |-> FALSE, name |-> <<>>, rootDir |-> <<>>]
    /\ lastLint = [ran |-> FALSE, linters |-> EmptyMap, injected |-> FALSE,
                   err |-> FALSE, files |-> {}, b |-> NewBaseLocal]
    /\ boot = [called |-> FALSE, isNil |-> FALSE, decls |-> <<>>, err |-> None]
    /\ lastRender = [called |-> FALSE, text |-> <<>>, ctx |-> EmptyMap, err |-> None,
                     out |-> <<>>]
    /\ mgr = [services |-> EmptyMap, first |-> EmptyMap, n |-> 0,
              last |-> [cfg |-> NoConfig, err |-> FALSE, before |-> EmptyMap]]

Init == InitOrch /\ InitReg /\ InitTwo /\ InitDir /\ InitWalk /\ InitCall

(***************************************************************************)
(* serviceManager.register, called with a fresh service instance.          *)
(***************************************************************************)
Register ==
    /\ pc = "idle"
    /\ nRegister < MaxRegister
    /\ \E id \in IDs : \E kind \in KindsOf(id) :
          LET svc == [id |-> id, kind |-> kind,
                      gen |-> IF services[id] = NoService THEN 1 ELSE 2]
              r == register(services, svc)
          IN /\ services' = r.services
             /\ lastRegister' = [svc |-> svc, err |-> r.err, before |-> services[id]]
             /\ firstReg' = IF ~r.err /\ firstReg[id] = NoService
                            THEN [firstReg EXCEPT ![id] = svc] ELSE firstReg
    /\ nRegister' = nRegister + 1
    /\ UNCHANGED <<cfgRegistrars, cfgServices, pc, visited, configSet, script, result, log,
                   openRoots>>
    /\ UNCHANGED <<regVars, twoVars, dirVars, walkVars, callVars>>

(***************************************************************************)
(* runAll, one action per loop iteration of its phases.                    *)
(***************************************************************************)
\* entry into runAll: assignConfigs starts
RunAllBegin ==
    /\ pc = "idle"
    /\ pc' = "assign"
    /\ visited' = {}
    /\ UNCHANGED <<services, cfgRegistrars, cfgServices, nRegister, firstReg, lastRegister, openRoots,
                   configSet, script, result, log>>
    /\ UNCHANGED <<regVars, twoVars, dirVars, walkVars, callVars>>

\* a failure return of runAll
Abort(kind) ==
    /\ pc' = "done"
    /\ result' = kind

\* an assignConfigs that notes the error of SetConfig and goes on
AssignConfigGoOn ==
    /\ pc = "assign"
    /\ \E curID \in Registered(services) \ visited :
          /\ visited' = visited \cup {curID}
          /\ IF ~HasConfig(curID)
             THEN UNCHANGED <<configSet, registry, log, pc, result>>
             ELSE \E fail \in BOOLEAN :
                    /\ configSet' = configSet \cup {curID}
                    /\ registry' = IF isRegistrar(services[curID])
                                   THEN LocalSetConfig(registry, LocalFileList)
                                   ELSE registry
                    /\ log' = log \o <<Event("SetConfig", curID)>>
                              \o (IF fail THEN <<Event("SetConfigErr", curID)>> ELSE <<>>)
                    /\ UNCHANGED <<pc, result>>
    /\ UNCHANGED <<services, cfgRegistrars, cfgServices, nRegister, firstReg, lastRegister, openRoots,
                   script>>
    /\ UNCHANGED <<lastCall, nCalls, usedKeys, out, twoVars, dirVars, walkVars, callVars>>

\* one iteration of the loop of assignConfigs
AssignConfig ==
    /\ pc = "assign"
    /\ \E curID \in Registered(services) \ visited :
          /\ visited' = visited \cup {curID}
          /\ IF ~HasConfig(curID)
             THEN UNCHANGED <<configSet, registry, log, pc, result>>
             ELSE \E fail \in BOOLEAN :
                    /\ configSet' = configSet \cup {curID}
                    /\ registry' = IF isRegistrar(services[curID])
                                   THEN LocalSetConfig(registry, LocalFileList)
                                   ELSE registry
                    /\ log' = log \o <<Event("SetConfig", curID)>>
                              \o (IF fail THEN <<Event("SetConfigErr", curID)>> ELSE <<>>)
                    /\ IF fail THEN Abort("err") ELSE UNCHANGED <<pc, result>>
    /\ UNCHANGED <<services, cfgRegistrars, cfgServices, nRegister, firstReg, lastRegister, openRoots,
                   script>>
    /\ UNCHANGED <<lastCall, nCalls, usedKeys, out, twoVars, dirVars, walkVars, callVars>>

\* assignConfigs returns nil: runPriorServices starts
AssignConfigsReturn ==
    /\ pc = "assign"
    /\ Registered(services) \subseteq visited
    /\ pc' = "prior"
    /\ visited' = {}
    /\ UNCHANGED <<services, cfgRegistrars, cfgServices, nRegister, firstReg, lastRegister, openRoots,
                   configSet, script, result, log>>
    /\ UNCHANGED <<regVars, twoVars, dirVars, walkVars, callVars>>

\* the *os.Root of a module when its Run has returned: BaseLocal.Run defers
\* curRoot.Close(), the other modules keep the handle in b.root; opened tells
\* whether CreateRootDir returned a handle
LeavesRootOpen(svc, opened) == opened /\ ~isRegistrar(svc)

\* svc.Run() called by the orchestrator, after the calls `pre` of this iteration;
\* a Run that fails may have failed in CreateRootDir or after it
CallRun(curID, hasScript, pre) ==
    \E env \in Envs(registry) : \E opened \in (IF env.fail THEN BOOLEAN ELSE {TRUE}) :
       LET r == Run(services[curID], hasScript, registry, out, env)
           a == AfterRun(r, pc)
       IN /\ registry' = r.b
          /\ out' = r.files
          /\ log' = log \o pre \o r.events
          /\ pc' = a.pc
          /\ result' = a.result
          /\ openRoots' = IF LeavesRootOpen(services[curID], opened)
                          THEN openRoots \cup {curID} ELSE openRoots

\* one iteration of the loop of runPriorServices / runSubsequentServices
RunListed(phase, list) ==
    /\ pc = phase
    /\ \E i \in DOMAIN list :
          /\ list[i] \notin visited
          /\ \A j \in 1..(i - 1) : list[j] \in visited
          /\ visited' = visited \cup {list[i]}
          /\ IF services[list[i]] = NoService \/ ~HasConfig(list[i])
             THEN UNCHANGED <<registry, out, log, pc, result, openRoots>>
             ELSE CallRun(list[i], list[i] \in script, <<>>)
    /\ UNCHANGED <<services, cfgRegistrars, cfgServices, nRegister, firstReg, lastRegister,
                   configSet, script>>
    /\ UNCHANGED <<lastCall, nCalls, usedKeys, twoVars, dirVars, walkVars, callVars>>

runPriorServices == RunListed("prior", priorServiceIDs)

\* runPriorServices returns nil: the main loop starts
PriorReturn ==
    /\ pc = "prior"
    /\ Range(priorServiceIDs) \subseteq visited
    /\ pc' = "main"
    /\ visited' = {}
    /\ UNCHANGED <<services, cfgRegistrars, cfgServices, nRegister, firstReg, lastRegister, openRoots,
                   configSet, script, result, log>>
    /\ UNCHANGED <<regVars, twoVars, dirVars, walkVars, callVars>>

\* one iteration of `for curID, svc := range sm.services` in runAll
RunMain ==
    /\ pc = "main"
    /\ \E curID \in Registered(services) \ visited :
          /\ visited' = visited \cup {curID}
          /\ IF isPriorService(curID) \/ isSubsequentService(curID) \/ ~HasConfig(curID)
             THEN UNCHANGED <<script, registry, out, log, pc, result, openRoots>>
             ELSE LET inject == /\ isScriptRec(services[curID])
                                /\ isRegistrar(services[ServiceNameBaseLocal])
                  IN /\ script' = IF inject THEN script \cup {curID} ELSE script
                     /\ CallRun(curID, curID \in script',
                                IF inject THEN <<Event("SetScriptReceiver", curID)>>
                                ELSE <<>>)
    /\ UNCHANGED <<services, cfgRegistrars, cfgServices, nRegister, firstReg, lastRegister,
                   configSet>>
    /\ UNCHANGED <<lastCall, nCalls, usedKeys, twoVars, dirVars, walkVars, callVars>>

\* the main loop is exhausted: runSubsequentServices starts
MainReturn ==
    /\ pc = "main"
    /\ Registered(services) \subseteq visited
    /\ pc' = "subsequent"
    /\ visited' = {}
    /\ UNCHANGED <<services, cfgRegistrars, cfgServices, nRegister, firstReg, lastRegister, openRoots,
                   configSet, script, result, log>>
    /\ UNCHANGED <<regVars, twoVars, dirVars, walkVars, callVars>>

runSubsequentServices == RunListed("subsequent", subsequentServiceIDs)

\* runSubsequentServices returns nil: runAll returns nil
RunAllReturn ==
    /\ pc = "subsequent"
    /\ Range(subsequentServiceIDs) \subseteq visited
    /\ pc' = "done"
    /\ result' = "ok"
    /\ UNCHANGED <<services, cfgRegistrars, cfgServices, nRegister, firstReg, lastRegister, openRoots,
                   visited, configSet, script, log>>
    /\ UNCHANGED <<regVars, twoVars, dirVars, walkVars, callVars>>

Next ==
    \/ Register
    \/ RunAllBegin
    \/ AssignConfig
    \/ AssignConfigsReturn
    \/ runPriorServices
    \/ PriorReturn
    \/ RunMain
    \/ MainReturn
    \/ runSubsequentServices
    \/ RunAllReturn

Spec == Init /\ [][Next]_vars

(***************************************************************************)
(* Two runs on identical inputs (specification SpecTwoRuns): once a run    *)
(* has succeeded, the program is started again with the same declarations, *)
(* configurations and templates on an empty output directory.              *)
(***************************************************************************)
Rerun ==
    /\ pc = "done"
    /\ result = "ok"
    /\ runNo = 1
    /\ runNo' = 2
    /\ prevOut' = out
    /\ prevResult' = result
    /\ pc' = "assign"
    /\ visited' = {}
    /\ configSet' = {}
    /\ script' = {}
    /\ result' = "none"
    /\ log' = <<>>
    /\ registry' = NewBaseLocal
    /\ out' = EmptyMap
    /\ openRoots' = {}
    /\ UNCHANGED <<services, cfgRegistrars, cfgServices, nRegister, firstReg, lastRegister>>
    /\ UNCHANGED <<lastCall, nCalls, usedKeys, dirVars, walkVars, callVars>>

NextTwoRuns == Next \/ Rerun

\* every declared module has a configuration
InitTwoRuns == FreshOrch(IDs) /\ InitReg /\ InitTwo /\ InitDir /\ InitWalk /\ InitCall

SpecTwoRuns == InitTwoRuns /\ [][NextTwoRuns]_vars

(***************************************************************************)
(* GoBoot (specification SpecBoot): RegisterServices on a list of service  *)
(* declarations, then RunServices as the command line calls it, only       *)
(* after RegisterServices returned nil.                                    *)
(***************************************************************************)
UnknownServiceID == "unknown_service_xyz"

\* config.ServiceConfigMeta: the identifier and the enabled flag
Decl == [ID : IDs \cup {UnknownServiceID}, Enabled : BOOLEAN]
DeclLists == UNION {[1..n -> Decl] : n \in 0..MaxDecls}

\* the instance the constructor of a module returns
NewService(id) ==
    [id |-> id,
     kind |-> CASE id = ServiceNameBaseLocal -> "registrar"
                [] id \in {ServiceNameBaseLint, ServiceNameBaseTest} -> "receiver"
                [] OTHER -> "plain",
     gen |-> 1]

BootResult(sv, err) == [services |-> sv, err |-> err]

\* registerPreServices: every enabled base_local declaration is registered
RECURSIVE registerPreServices(_, _, _)
registerPreServices(decls, sv, i) ==
    IF i > Len(decls) THEN BootResult(sv, None)
    ELSE IF ~decls[i].Enabled THEN registerPreServices(decls, sv, i + 1)
    ELSE IF decls[i].ID = ServiceNameBaseLocal
         THEN LET r == register(sv, NewService(decls[i].ID))
              IN IF r.err THEN BootResult(sv, "duplicate")
                 ELSE registerPreServices(decls, r.services, i + 1)
         ELSE registerPreServices(decls, sv, i + 1)

\* the generator modules the switch of registerMainServices constructs
MainServiceIDs == {ServiceNameBaseProject, ServiceNameBaseLint}
\* the test-scaffold module, dispatched like the other generator modules
TestServiceIDs == {ServiceNameBaseTest}

\* a dispatch that passes over the identifiers it does not know
RECURSIVE registerMainServicesLenient(_, _, _)
registerMainServicesLenient(decls, sv, i) ==
    IF i > Len(decls) THEN BootResult(sv, None)
    ELSE IF ~decls[i].Enabled THEN registerMainServicesLenient(decls, sv, i + 1)
    ELSE IF decls[i].ID \in MainServiceIDs \cup TestServiceIDs
         THEN LET r == register(sv, NewService(decls[i].ID))
              IN IF r.err THEN BootResult(sv, "duplicate")
                 ELSE registerMainServicesLenient(decls, r.services, i + 1)
         ELSE registerMainServicesLenient(decls, sv, i + 1)

\* registerMainServices: every enabled declaration of a generator module is
\* registered, base_local is passed over, any other identifier is an error
RECURSIVE registerMainServices(_, _, _)
registerMainServices(decls, sv, i) ==
    IF i > Len(decls) THEN BootResult(sv, None)
    ELSE IF ~decls[i].Enabled THEN registerMainServices(decls, sv, i + 1)
    ELSE IF decls[i].ID \in MainServiceIDs \cup TestServiceIDs
         THEN LET r == register(sv, NewService(decls[i].ID))
              IN IF r.err THEN BootResult(sv, "duplicate")
                 ELSE registerMainServices(decls, r.services, i + 1)
         ELSE IF decls[i].ID = ServiceNameBaseLocal
              THEN registerMainServices(decls, sv, i + 1)
              ELSE BootResult(sv, "unknown")

\* GoBoot.RegisterServices on a nil or non-nil list of declarations
RegisterServices(isNil, decls, sv) ==
    IF isNil THEN BootResult(sv, "nil")
    ELSE LET pre == registerPreServices(decls, sv, 1)
         IN IF pre.err # None THEN pre
            ELSE registerMainServices(decls, pre.services, 1)

\* main.run, step 3: app.RegisterServices()
RegisterServicesCall ==
    /\ ~boot.called
    /\ \E isNil \in BOOLEAN :
       \E decls \in (IF isNil THEN {<<>>} ELSE DeclLists) :
          LET r == RegisterServices(isNil, decls, services)
          IN /\ services' = r.services
             /\ boot' = [called |-> TRUE, isNil |-> isNil, decls |-> decls, err |-> r.err]
    /\ UNCHANGED <<cfgRegistrars, cfgServices, nRegister, firstReg, lastRegister,
                   pc, visited, configSet, script, result, log, openRoots>>
    /\ UNCHANGED <<regVars, twoVars, dirVars, walkVars, lastSetConfig, lastLint, lastRender, mgr>>

\* main.run, step 4: app.RunServices(), reached when step 3 returned nil
RunServices ==
    /\ boot.called
    /\ boot.err = None
    /\ RunAllBegin

NextBoot ==
    \/ RegisterServicesCall
    \/ RunServices
    \/ AssignConfig
    \/ AssignConfigsReturn
    \/ runPriorServices
    \/ PriorReturn
    \/ RunMain
    \/ MainReturn
    \/ runSubsequentServices
    \/ RunAllReturn

InitBoot == FreshOrch(IDs) /\ InitReg /\ InitTwo /\ InitDir /\ InitWalk /\ InitCall

SpecBoot == InitBoot /\ [][NextBoot]_vars

(***************************************************************************)
(* A stand-alone registrar (specification SpecReg): SetConfig,             *)
(* RegisterLines and RegisterFile called in any order on one BaseLocal.    *)
(***************************************************************************)
\* the entries a FileList may hold: the four channels and an unknown name
FileListEntries ==
    {ScriptNameMake, ScriptNameTask, ScriptNameCommit, ScriptNameScript, "other"}

\* BaseLocalConfig.Validate only requires a non-empty FileList
FileLists == UNION {[1..n -> FileListEntries] : n \in 1..MaxFileList}

LineKeys == {ServiceNameBaseLint, ServiceNameBaseTest}
FileKeys == {ScriptFileLint, ScriptFileTest}
LineLists == {<<"cmd">>, <<"cmd again">>}

\* the record of a call: its arguments and outcome, whether an earlier call
\* of the same operation used the same key, and the registrar before it
Call(op, key, lines, r) ==
    [op |-> op, key |-> key, lines |-> lines, err |-> r.err, panic |-> r.panic,
     reused |-> (<<op, key>> \in usedKeys), before |-> registry]

Used(op, key, r) == IF r.panic THEN usedKeys ELSE usedKeys \cup {<<op, key>>}

RegSetConfig ==
    /\ nCalls < MaxRegCalls
    /\ \E fl \in FileLists :
          /\ registry' = LocalSetConfig(registry, fl)
          /\ lastCall' = Call("SetConfig", None, fl, RegResult(registry, FALSE, FALSE))
    /\ nCalls' = nCalls + 1
    /\ UNCHANGED <<orchVars, usedKeys, out, twoVars, dirVars, walkVars, callVars>>

RegLines ==
    /\ nCalls < MaxRegCalls
    /\ \E name \in LineKeys : \E lines \in LineLists :
          LET r == RegisterLines(registry, name, lines)
          IN /\ registry' = r.b
             /\ lastCall' = Call("RegisterLines", name, lines, r)
             /\ usedKeys' = Used("RegisterLines", name, r)
    /\ nCalls' = nCalls + 1
    /\ UNCHANGED <<orchVars, out, twoVars, dirVars, walkVars, callVars>>

RegFile ==
    /\ nCalls < MaxRegCalls
    /\ \E name \in FileKeys : \E lines \in LineLists :
          LET r == RegisterFile(registry, name, lines)
          IN /\ registry' = r.b
             /\ lastCall' = Call("RegisterFile", name, lines, r)
             /\ usedKeys' = Used("RegisterFile", name, r)
    /\ nCalls' = nCalls + 1
    /\ UNCHANGED <<orchVars, out, twoVars, dirVars, walkVars, callVars>>

NextReg == RegSetConfig \/ RegLines \/ RegFile

InitRegistrar == FreshOrch({}) /\ InitReg /\ InitTwo /\ InitDir /\ InitWalk /\ InitCall

SpecReg == InitRegistrar /\ [][NextReg]_vars

(***************************************************************************)
(* The line channels of the registrar (specification SpecRegLines):        *)
(* SetConfig with a FileList of line channels, in which a channel may      *)
(* stand more than once, and RegisterLines, in any order on one BaseLocal. *)
(***************************************************************************)
LineFileLists ==
    UNION {[1..n -> {ScriptNameMake, ScriptNameTask, ScriptNameCommit}] :
              n \in 1..MaxLineChannels}

RegSetConfigLines ==
    /\ nCalls < MaxRegCalls
    /\ \E fl \in LineFileLists :
          /\ registry' = LocalSetConfig(registry, fl)
          /\ lastCall' = Call("SetConfig", None, fl, RegResult(registry, FALSE, FALSE))
    /\ nCalls' = nCalls + 1
    /\ UNCHANGED <<orchVars, usedKeys, out, twoVars, dirVars, walkVars, callVars>>

NextRegLines == RegSetConfigLines \/ RegLines

SpecRegLines == InitRegistrar /\ [][NextRegLines]_vars

(***************************************************************************)
(* The output root (os.Root) and EnsureDir (pkg/utils/utils.go).  A        *)
(* string (a file name, a file's content) is the sequence of its atoms,    *)
(* the indivisible pieces of text the model tells apart; a relative path   *)
(* is the sequence of its slash-separated segments, each a name; the empty *)
(* sequence is the empty string.  The tree below the root maps the path of *)
(* every existing entry to its kind and content.                           *)
(***************************************************************************)
Dir == [kind |-> "dir", content |-> <<>>]
File(content) == [kind |-> "file", content |-> content]

Dot == <<".">>
DotDot == <<"..">>

Names == {<<"a">>, <<"b">>}
Segments == Names \cup {DotDot, Dot}

\* the relative paths handed to EnsureDir
RelPaths == UNION {[1..n -> Segments] : n \in 0..MaxPathLen}

\* filepath.Clean of a relative path without empty segments: "." segments
\* are dropped, a ".." removes the named segment before it and is kept when
\* there is none, the empty result is "."
RECURSIVE CleanFrom(_, _, _)
CleanFrom(p, i, acc) ==
    IF i > Len(p) THEN (IF acc = <<>> THEN <<Dot>> ELSE acc)
    ELSE CASE p[i] = Dot -> CleanFrom(p, i + 1, acc)
           [] p[i] = DotDot ->
                  IF acc # <<>> /\ acc[Len(acc)] # DotDot
                  THEN CleanFrom(p, i + 1, SubSeq(acc, 1, Len(acc) - 1))
                  ELSE CleanFrom(p, i + 1, Append(acc, DotDot))
           [] OTHER -> CleanFrom(p, i + 1, Append(acc, p[i]))

Clean(p) == CleanFrom(p, 1, <<>>)

\* a guard that only knows the bare ".."
isPathEscapingRootBareOnly(clean) == clean = <<DotDot>>

\* isPathEscapingRoot: clean == ".." || HasPrefix(clean, "../") ||
\* Contains(clean, "/../")
isPathEscapingRoot(clean) ==
    \/ clean = <<DotDot>>
    \/ Len(clean) > 1 /\ clean[1] = DotDot
    \/ \E i \in 2..(Len(clean) - 1) : clean[i] = DotDot

DirResult(fs, err) == [root |-> fs, err |-> err]

\* root.Stat(path): ok, notexist, or another error (a path that leaves the
\* root, or one that runs through a file)
Stat(fs, path) ==
    IF path = <<Dot>> THEN "ok"
    ELSE IF \E i \in DOMAIN path : path[i] = DotDot THEN "error"
    ELSE IF path \in DOMAIN fs THEN "ok"
    ELSE IF \E k \in 1..(Len(path) - 1) :
               /\ SubSeq(path, 1, k) \in DOMAIN fs
               /\ fs[SubSeq(path, 1, k)].kind = "file"
         THEN "error"
         ELSE "notexist"

\* the parent directory of path exists (the root itself always does)
ParentIsDir(fs, path) ==
    \/ Len(path) = 1
    \/ /\ SubSeq(path, 1, Len(path) - 1) \in DOMAIN fs
       /\ fs[SubSeq(path, 1, Len(path) - 1)].kind = "dir"

\* an ensurePathExists that calls root.Mkdir without the Stat before it
ensurePathExistsNoStat(path, fs) ==
    IF path \in DOMAIN fs \/ ~ParentIsDir(fs, path)
    THEN DirResult(fs, "mkdir")
    ELSE DirResult(MapPut(fs, path, Dir), None)

\* ensurePathExists: an entry that exists (of whatever kind) is left alone,
\* a missing one is created with root.Mkdir
ensurePathExists(path, fs) ==
    CASE Stat(fs, path) = "ok" -> DirResult(fs, None)
      [] Stat(fs, path) = "notexist" ->
             IF ~ParentIsDir(fs, path)
             THEN DirResult(fs, "mkdir")
             ELSE DirResult(MapPut(fs, path, Dir), None)
      [] OTHER -> DirResult(fs, "stat")

\* the loop of EnsureDir over the segments of the cleaned path
RECURSIVE EnsureParts(_, _, _)
EnsureParts(clean, fs, i) ==
    IF i > Len(clean) THEN DirResult(fs, None)
    ELSE LET r == ensurePathExists(SubSeq(clean, 1, i), fs)
         IN IF r.err # None THEN r
            ELSE EnsureParts(clean, r.root, i + 1)

EnsureDir(relPath, fs) ==
    IF relPath = <<Dot>> \/ relPath = <<>> THEN DirResult(fs, None)
    ELSE LET clean == Clean(relPath)
         IN IF isPathEscapingRoot(clean) THEN DirResult(fs, "escape")
            ELSE EnsureParts(clean, fs, 1)

\* root.Create(path): creates or truncates the file; fails on an empty
\* name, on a directory, below a file or below a missing directory
Create(fs, path, content) ==
    IF /\ path # <<>> /\ path[Len(path)] # <<>>
       /\ ParentIsDir(fs, path)
       /\ (path \in DOMAIN fs => fs[path].kind = "file")
    THEN DirResult(MapPut(fs, path, File(content)), None)
    ELSE DirResult(fs, "create")

(***************************************************************************)
(* A stand-alone output root (specification SpecDir): EnsureDir and        *)
(* root.Create called in any order on one root.                            *)
(***************************************************************************)
EnsureDirCall ==
    /\ nDirCalls < MaxDirCalls
    /\ \E relPath \in RelPaths :
          LET r == EnsureDir(relPath, root)
          IN /\ root' = r.root
             /\ lastDir' = [op |-> "EnsureDir", path |-> relPath, err |-> r.err,
                             before |-> root,
                             again |-> (lastDir.op = "EnsureDir" /\ lastDir.path = relPath),
                             prevErr |-> lastDir.err]
    /\ nDirCalls' = nDirCalls + 1
    /\ UNCHANGED <<orchVars, regVars, twoVars, walkVars, callVars>>

CreateCall ==
    /\ nDirCalls < MaxDirCalls
    /\ \E name \in Names :
          LET r == Create(root, <<name>>, <<>>)
          IN /\ root' = r.root
             /\ lastDir' = [op |-> "Create", path |-> <<name>>, err |-> r.err,
                             before |-> root, again |-> FALSE, prevErr |-> lastDir.err]
    /\ nDirCalls' = nDirCalls + 1
    /\ UNCHANGED <<orchVars, regVars, twoVars, walkVars, callVars>>

NextDir == EnsureDirCall \/ CreateCall

InitRoot == FreshOrch({}) /\ InitReg /\ InitTwo /\ InitDir /\ InitWalk /\ InitCall

SpecDir == InitRoot /\ [][NextDir]_vars

(***************************************************************************)
(* SetConfig of the generator modules and ComparePaths                     *)
(* (pkg/utils/utils.go).  A path string is [abs, segs]: whether it starts  *)
(* with a slash, and its segments.                                         *)
(***************************************************************************)
\* the working directory of the process: /a
Cwd == <<<<"a">>>>

PathString(abs, segs) == [abs |-> abs, segs |-> segs]

\* filepath.Clean of a rooted path: "." segments are dropped, a ".." removes
\* the segment before it and is dropped at the root
RECURSIVE RootedCleanFrom(_, _, _)
RootedCleanFrom(p, i, acc) ==
    IF i > Len(p) THEN acc
    ELSE CASE p[i] = Dot -> RootedCleanFrom(p, i + 1, acc)
           [] p[i] = DotDot ->
                  RootedCleanFrom(p, i + 1,
                                  IF acc = <<>> THEN acc ELSE SubSeq(acc, 1, Len(acc) - 1))
           [] OTHER -> RootedCleanFrom(p, i + 1, Append(acc, p[i]))

\* filepath.Clean of a path string
FilepathClean(p) ==
    IF p.abs THEN PathString(TRUE, RootedCleanFrom(p.segs, 1, <<>>))
    ELSE PathString(FALSE, Clean(p.segs))

\* filepath.Abs: a rooted path is cleaned, any other is joined to the
\* working directory (Join cleans its result)
Abs(p) ==
    IF p.abs THEN PathString(TRUE, RootedCleanFrom(p.segs, 1, <<>>))
    ELSE PathString(TRUE, RootedCleanFrom(Cwd \o p.segs, 1, <<>>))

\* a comparison of the two strings as they are spelled
ComparePathsSpelled(first, second, forceDiffer) ==
    IF forceDiffer
    THEN (IF first = second THEN "same" ELSE None)
    ELSE (IF first # second THEN "differ" ELSE None)

ComparePaths(first, second, forceDiffer) ==
    LET firstAbs == Abs(FilepathClean(first))
        secondAbs == Abs(FilepathClean(second))
    IN IF forceDiffer
       THEN (IF firstAbs = secondAbs THEN "same" ELSE None)
       ELSE (IF firstAbs # secondAbs THEN "differ" ELSE None)

\* SetConfig of BaseProject, BaseLint, BaseTest and BaseLocal: the type
\* assertion, then the comparison of SourcePath with targetDir
SetConfig(typed, sourcePath, targetDir) ==
    IF ~typed THEN "type"
    ELSE IF ComparePaths(sourcePath, targetDir, TRUE) # None THEN "compare"
    ELSE None

SourcePaths == {PathString(abs, segs) : abs \in BOOLEAN, segs \in RelPaths}
TargetPaths ==
    {PathString(abs, segs) : abs \in BOOLEAN,
                             segs \in UNION {[1..n -> Segments] : n \in 0..MaxTargetLen}}

\* one SetConfig call on a fresh generator module (specification SpecCfg)
SetConfigCall ==
    /\ lastSetConfig.id = None
    /\ \E id \in IDs : \E typed \in BOOLEAN :
       \E sourcePath \in SourcePaths : \E targetDir \in TargetPaths :
          lastSetConfig' = [id |-> id, typed |-> typed, source |-> sourcePath,
                            target |-> targetDir,
                            err |-> SetConfig(typed, sourcePath, targetDir),
                            ran |-> FALSE, name |-> <<>>, rootDir |-> <<>>]
    /\ UNCHANGED <<orchVars, regVars, twoVars, dirVars, walkVars, lastLint, boot, lastRender, mgr>>

\* cfg.ProjectName: one file name
ProjectNames == {<<"a">>, <<"b">>}

\* CreateRootDir: filepath.Abs(path.Clean(filepath.Join(targetDir, name))),
\* the directory that is created and opened as the root; Join leaves out
\* an empty targetDir
CreateRootDir(targetDir, name) ==
    Abs(FilepathClean(PathString(targetDir.abs, Append(targetDir.segs, name))))

\* Run of the module after its SetConfig returned nil: the root is opened
RunCall ==
    /\ lastSetConfig.id # None
    /\ lastSetConfig.err = None
    /\ ~lastSetConfig.ran
    /\ \E name \in ProjectNames :
          lastSetConfig' = [lastSetConfig EXCEPT
                              !.ran = TRUE, !.name = name,
                              !.rootDir = CreateRootDir(lastSetConfig.target, name)]
    /\ UNCHANGED <<orchVars, regVars, twoVars, dirVars, walkVars, lastLint, boot, lastRender, mgr>>

NextCfg == SetConfigCall \/ RunCall

InitCfg == FreshOrch({}) /\ InitReg /\ InitTwo /\ InitDir /\ InitWalk /\ InitCall

SpecCfg == InitCfg /\ [][NextCfg]_vars

(***************************************************************************)
(* A stand-alone lint module (specification SpecLint): one Run of a        *)
(* BaseLint with any configuration of its linters, with or without a       *)
(* registrar that lists all four channels.                                 *)
(***************************************************************************)
\* the linters that have a configuration file, and their commands
LinterNames == {"golang", "yaml", "markdown"}
LinterCmd(n) ==
    CASE n = "golang" -> "golangci-lint run"
      [] n = "yaml" -> "yamllint ."
      [] OTHER -> "markdownlint ."

\* the values of BaseLintConfig.Linters: any of the linters, enabled or not
LinterConfigs ==
    UNION {[S -> BOOLEAN] : S \in SUBSET LinterNames}

LintersOf(enabled) ==
    [n \in DOMAIN enabled |-> [Enabled |-> enabled[n], Cmd |-> LinterCmd(n)]]

\* BaseLint.Run: CreateRootDir, then copyFiles, which handles the file of
\* every enabled linter and calls registerScripts when b.script is set
LintRun(linters, order, hasScript, fail, b) ==
    LET files == {n \in DOMAIN linters : linters[n].Enabled}
    IN IF fail THEN [b |-> b, err |-> TRUE, files |-> {}]
       ELSE IF ~hasScript THEN [b |-> b, err |-> FALSE, files |-> files]
       ELSE LET r == registerScripts(b, ServiceNameBaseLint, LintCmdsOf(linters, order))
            IN [b |-> r.b, err |-> r.err, files |-> files]

LintRunCall ==
    /\ ~lastLint.ran
    /\ \E enabled \in LinterConfigs : \E order \in Perms(DOMAIN enabled) :
       \E hasScript \in BOOLEAN : \E fail \in BOOLEAN :
          LET linters == LintersOf(enabled)
              r == LintRun(linters, order, hasScript, fail,
                           LocalSetConfig(NewBaseLocal, LocalFileList))
          IN lastLint' = [ran |-> TRUE, linters |-> linters, injected |-> hasScript,
                          err |-> r.err, files |-> r.files, b |-> r.b]
    /\ UNCHANGED <<orchVars, regVars, twoVars, dirVars, walkVars, lastSetConfig, boot, lastRender, mgr>>

NextLint == LintRunCall

InitLint == FreshOrch({}) /\ InitReg /\ InitTwo /\ InitDir /\ InitWalk /\ InitCall

SpecLint == InitLint /\ [][NextLint]_vars

(***************************************************************************)
(* The config manager (pkg/config/manager.go, specification SpecMgr): a    *)
(* sequence of Register calls on one Manager.                              *)
(***************************************************************************)
ServiceConfigs ==
    [id : {ServiceNameBaseProject, ServiceNameBaseLint}, instance : 1..2, valid : BOOLEAN]

\* Manager.Register: Validate, then cm.services[cfg.ID()] = cfg
ManagerRegister(entries, cfg) ==
    IF ~cfg.valid THEN [services |-> entries, err |-> TRUE]
    ELSE [services |-> MapPut(entries, cfg.id, cfg), err |-> FALSE]

ManagerRegisterCall ==
    /\ mgr.n < MaxMgrCalls
    /\ \E cfg \in ServiceConfigs :
          LET r == ManagerRegister(mgr.services, cfg)
          IN mgr' = [services |-> r.services,
                     first |-> IF ~r.err /\ cfg.id \notin DOMAIN mgr.first
                               THEN MapPut(mgr.first, cfg.id, cfg) ELSE mgr.first,
                     n |-> mgr.n + 1,
                     last |-> [cfg |-> cfg, err |-> r.err, before |-> mgr.services]]
    /\ UNCHANGED <<orchVars, regVars, twoVars, dirVars, walkVars,
                   lastSetConfig, lastLint, boot, lastRender>>

NextMgr == ManagerRegisterCall

InitMgr == FreshOrch({}) /\ InitReg /\ InitTwo /\ InitDir /\ InitWalk /\ InitCall

SpecMgr == InitMgr /\ [][NextMgr]_vars

(***************************************************************************)
(* Template rendering (pkg/gobootutils/template.go) over atoms.  A         *)
(* placeholder is one atom; the context is the module's configuration.     *)
(***************************************************************************)
TemplateSuffix == ".tmpl"
SuiteFile == "suite_test.go"
TestStyleGinkgo == "ginkgo"
TestStyleGo == "go"

\* `{{.LowerProjectName}}`: a field of the configuration
PlaceholderLower == "{{.LowerProjectName}}"
\* `{{.Unknown}}`: parses, but names no field of the configuration
PlaceholderUnknown == "{{.Unknown}}"
\* `{{.ProjectName`: an action that is never closed
Unclosed == "{{.ProjectName"

\* the configuration of the walking module: the project is named "x"
Ctx == [LowerProjectName |-> <<"x">>]

\* a rendering that escapes the text for HTML, as html/template does
RECURSIVE SubstituteInEscaped(_, _)
SubstituteInEscaped(text, ctx) ==
    IF text = <<>> THEN <<>>
    ELSE (CASE Head(text) = PlaceholderLower -> ctx.LowerProjectName
            [] Head(text) = "<" -> <<"&lt;">>
            [] OTHER -> <<Head(text)>>)
         \o SubstituteInEscaped(Tail(text), ctx)

\* Execute: text is copied, a field action is replaced by the field's value
RECURSIVE SubstituteIn(_, _)
SubstituteIn(text, ctx) ==
    IF text = <<>> THEN <<>>
    ELSE (IF Head(text) = PlaceholderLower THEN ctx.LowerProjectName ELSE <<Head(text)>>)
         \o SubstituteIn(Tail(text), ctx)

Substitute(text) == SubstituteIn(text, Ctx)

\* ExecuteTemplateText: Parse, then Execute against the data
ExecuteTemplateTextIn(text, ctx) ==
    IF \E i \in DOMAIN text : text[i] = Unclosed
    THEN [err |-> "parse", text |-> <<>>]
    ELSE IF \E i \in DOMAIN text :
               \/ text[i] = PlaceholderUnknown
               \/ text[i] = PlaceholderLower /\ "LowerProjectName" \notin DOMAIN ctx
         THEN [err |-> "exec", text |-> <<>>]
         ELSE [err |-> None, text |-> SubstituteIn(text, ctx)]

\* ExecuteTemplateText against the configuration of the walking module
ExecuteTemplateText(text) == ExecuteTemplateTextIn(text, Ctx)

\* template texts: literal text, with and without actions
TextAtoms == {"y", "<", PlaceholderLower, PlaceholderUnknown, Unclosed}
Texts == UNION {[1..n -> TextAtoms] : n \in 0..MaxTextLen}

\* data contexts: with the field (two values), and without any field
Contexts ==
    {Ctx, [LowerProjectName |-> <<"<", "y">>], [k \in {} |-> <<>>]}

\* one ExecuteTemplateText call (specification SpecTmpl)
ExecuteCall ==
    /\ ~lastRender.called
    /\ \E text \in Texts : \E ctx \in Contexts :
          LET r == ExecuteTemplateTextIn(text, ctx)
          IN lastRender' = [called |-> TRUE, text |-> text, ctx |-> ctx,
                            err |-> r.err, out |-> r.text]
    /\ UNCHANGED <<orchVars, regVars, twoVars, dirVars, walkVars,
                   lastSetConfig, lastLint, boot, mgr>>

NextTmpl == ExecuteCall

InitTmpl == FreshOrch({}) /\ InitReg /\ InitTwo /\ InitDir /\ InitWalk /\ InitCall

SpecTmpl == InitTmpl /\ [][NextTmpl]_vars

RECURSIVE SubstituteSegments(_)
SubstituteSegments(p) ==
    IF p = <<>> THEN <<>>
    ELSE <<Substitute(Head(p))>> \o SubstituteSegments(Tail(p))

\* ExecuteTemplateText on a relative path: the whole path is one template
RenderRelPath(p) ==
    IF \E i \in DOMAIN p : ExecuteTemplateText(p[i]).err = "parse"
    THEN [err |-> "parse", path |-> <<>>]
    ELSE IF \E i \in DOMAIN p : ExecuteTemplateText(p[i]).err = "exec"
         THEN [err |-> "exec", path |-> <<>>]
         ELSE [err |-> None, path |-> SubstituteSegments(p)]

\* a rewrite that creates (truncates) the file before it renders the content
RenderTemplateToFileTruncating(fs, path) ==
    IF path \notin DOMAIN fs \/ fs[path].kind # "file" THEN DirResult(fs, "open")
    ELSE LET r == ExecuteTemplateText(fs[path].content)
         IN IF r.err # None THEN DirResult(Create(fs, path, <<>>).root, "render")
            ELSE Create(fs, path, r.text)

\* RenderTemplateToFile: read the file, render its content, rewrite it in place
RenderTemplateToFile(fs, path) ==
    IF path \notin DOMAIN fs \/ fs[path].kind # "file" THEN DirResult(fs, "open")
    ELSE LET r == ExecuteTemplateText(fs[path].content)
         IN IF r.err # None THEN DirResult(fs, "render")
            ELSE Create(fs, path, r.text)

(***************************************************************************)
(* fs.WalkDir: the entries of a tree in depth-first order, the entries of  *)
(* a directory sorted by file name (byte order).                           *)
(***************************************************************************)
AtomOrder ==
    <<".", "..", TemplateSuffix, "a", "b", SuiteFile, "x", "y",
      PlaceholderLower, Unclosed, PlaceholderUnknown>>

AtomLess(a, b) ==
    \E i \in DOMAIN AtomOrder : \E j \in DOMAIN AtomOrder :
       AtomOrder[i] = a /\ AtomOrder[j] = b /\ i < j

\* file names in byte order: a proper prefix comes first, otherwise the
\* first difference decides
NameLess(a, b) ==
    \E k \in 0..Len(a) :
       /\ k <= Len(b)
       /\ \A i \in 1..k : a[i] = b[i]
       /\ \/ k = Len(a) /\ k < Len(b)
          \/ k < Len(a) /\ k < Len(b) /\ AtomLess(a[k + 1], b[k + 1])

\* depth-first: a directory comes before its entries, then its next sibling
PathLess(p, q) ==
    \E k \in 0..Len(p) :
       /\ k <= Len(q)
       /\ \A i \in 1..k : p[i] = q[i]
       /\ \/ k = Len(p) /\ k < Len(q)
          \/ k < Len(p) /\ k < Len(q) /\ NameLess(p[k + 1], q[k + 1])

RECURSIVE SortPaths(_)
SortPaths(S) ==
    IF S = {} THEN <<>>
    ELSE LET first == CHOOSE p \in S : \A q \in S \ {p} : PathLess(p, q)
         IN <<first>> \o SortPaths(S \ {first})

RECURSIVE WalkEntries(_, _)
WalkEntries(tree, paths) ==
    IF paths = <<>> THEN <<>>
    ELSE <<[path |-> Head(paths), entry |-> tree[Head(paths)]]>>
         \o WalkEntries(tree, Tail(paths))

\* the walk of a tree from ".": the root entry, then every entry below it
WalkDir(tree) ==
    <<[path |-> <<Dot>>, entry |-> Dir]>> \o WalkEntries(tree, SortPaths(DOMAIN tree))

(***************************************************************************)
(* The two-pass walker of BaseProject and BaseTest.                        *)
(***************************************************************************)
\* strings.Contains(renderedPath, "suite_test.go")
ContainsSuite(p) == \E i \in DOMAIN p : \E j \in DOMAIN p[i] : p[i][j] = SuiteFile

\* a filter that leaves the suite files out whatever the style is
SkipsSuiteAnyStyle(w, p) ==
    w.id = ServiceNameBaseTest /\ ContainsSuite(p)

\* BaseTest.renderPath: suite files are left out unless the style is ginkgo
SkipsSuite(w, p) ==
    w.id = ServiceNameBaseTest /\ ContainsSuite(p) /\ w.style # TestStyleGinkgo

\* strings.TrimSuffix(renderedPath, ".tmpl")
TrimSuffix(p) ==
    IF p # <<>> /\ p[Len(p)] # <<>> /\ p[Len(p)][Len(p[Len(p)])] = TemplateSuffix
    THEN Append(SubSeq(p, 1, Len(p) - 1), SubSeq(p[Len(p)], 1, Len(p[Len(p)]) - 1))
    ELSE p

\* filepath.Dir
PathDir(p) == IF Len(p) <= 1 THEN <<Dot>> ELSE SubSeq(p, 1, Len(p) - 1)

\* renderPath of BaseProject and of BaseTest (which also skips suite files
\* and strips the template suffix): pass 1, the handler of one source entry
renderPath(w, relTemplatePath, entry, fs) ==
    LET r == RenderRelPath(relTemplatePath)
        renderedPath == IF w.id = ServiceNameBaseTest THEN TrimSuffix(r.path) ELSE r.path
    IN IF r.err # None THEN DirResult(fs, "render")
       ELSE IF SkipsSuite(w, r.path) THEN DirResult(fs, None)
       ELSE IF entry.kind = "dir" THEN EnsureDir(renderedPath, fs)
       ELSE LET e == EnsureDir(PathDir(renderedPath), fs)
            IN IF e.err # None THEN e
               ELSE Create(e.root, renderedPath, entry.content)

\* renderContent: pass 2, the handler of one entry of the output root
renderContent(path, entry, fs) ==
    IF entry.kind = "dir" THEN DirResult(fs, None)
    ELSE RenderTemplateToFile(fs, path)

\* the source trees: names and contents of their entries
SrcNames ==
    {<<"x">>, <<PlaceholderLower>>, <<"x", TemplateSuffix>>, <<SuiteFile>>, <<Unclosed>>}
SrcContents == {<<"y">>, <<"y", PlaceholderLower>>, <<PlaceholderUnknown>>}

\* the walking modules
Walkers ==
    {[id |-> ServiceNameBaseProject, style |-> None],
     [id |-> ServiceNameBaseTest, style |-> TestStyleGinkgo],
     [id |-> ServiceNameBaseTest, style |-> TestStyleGo]}

\* one more entry in the source template tree
AddSource ==
    /\ wpc = "setup"
    /\ Cardinality(DOMAIN src) < MaxSrcEntries
    /\ \E parent \in {<<>>} \cup {p \in DOMAIN src : src[p].kind = "dir"} :
       \E name \in SrcNames :
       \E entry \in {Dir} \cup {File(c) : c \in SrcContents} :
          /\ Append(parent, name) \notin DOMAIN src
          /\ src' = MapPut(src, Append(parent, name), entry)
    /\ UNCHANGED <<walker, wpc, todo, wresult, walkHist>>
    /\ UNCHANGED <<orchVars, regVars, twoVars, dirVars, callVars>>

\* Run: the root is opened on an empty directory and pass 1 starts
WalkBegin ==
    /\ wpc = "setup"
    /\ \E w \in Walkers : walker' = w
    /\ wpc' = "pass1"
    /\ todo' = WalkDir(src)
    /\ walkHist' = [begin |-> root, pass1 |-> EmptyMap]
    /\ UNCHANGED <<src, wresult>>
    /\ UNCHANGED <<orchVars, regVars, twoVars, dirVars, callVars>>

\* a walk that passes over an entry whose handler failed
WalkStepGoOn ==
    /\ wpc \in {"pass1", "pass2"}
    /\ todo # <<>>
    /\ LET cur == Head(todo)
           r == IF wpc = "pass1"
                THEN renderPath(walker, cur.path, cur.entry, root)
                ELSE renderContent(cur.path, cur.entry, root)
       IN /\ root' = r.root
          /\ todo' = Tail(todo)
          /\ UNCHANGED <<wpc, wresult>>
    /\ UNCHANGED <<src, walker, walkHist>>
    /\ UNCHANGED <<orchVars, regVars, twoVars, lastDir, nDirCalls, callVars>>

\* one call of the handler by walkAndApply, in pass 1 or pass 2
WalkStep ==
    /\ wpc \in {"pass1", "pass2"}
    /\ todo # <<>>
    /\ LET cur == Head(todo)
           r == IF wpc = "pass1"
                THEN renderPath(walker, cur.path, cur.entry, root)
                ELSE renderContent(cur.path, cur.entry, root)
       IN /\ root' = r.root
          /\ IF r.err # None
             THEN /\ wpc' = "done"
                  /\ wresult' = IF wpc = "pass1" THEN "failed to render path"
                                ELSE "failed to render content"
                  /\ UNCHANGED todo
             ELSE /\ todo' = Tail(todo)
                  /\ UNCHANGED <<wpc, wresult>>
    /\ UNCHANGED <<src, walker, walkHist>>
    /\ UNCHANGED <<orchVars, regVars, twoVars, lastDir, nDirCalls, callVars>>

\* pass 1 is over: pass 2 walks the output root
Pass1Return ==
    /\ wpc = "pass1"
    /\ todo = <<>>
    /\ wpc' = "pass2"
    /\ todo' = WalkDir(root)
    /\ walkHist' = [walkHist EXCEPT !.pass1 = root]
    /\ UNCHANGED <<src, walker, wresult>>
    /\ UNCHANGED <<orchVars, regVars, twoVars, dirVars, callVars>>

\* pass 2 is over: Run returns nil
Pass2Return ==
    /\ wpc = "pass2"
    /\ todo = <<>>
    /\ wpc' = "done"
    /\ wresult' = "ok"
    /\ UNCHANGED <<src, walker, todo, walkHist>>
    /\ UNCHANGED <<orchVars, regVars, twoVars, dirVars, callVars>>

NextWalk == AddSource \/ WalkBegin \/ WalkStep \/ Pass1Return \/ Pass2Return

InitWalker == FreshOrch({}) /\ InitReg /\ InitTwo /\ InitDir /\ InitWalk /\ InitCall

SpecWalk == InitWalker /\ [][NextWalk]_vars

(***************************************************************************)
(* The walker on a shared output root (specification SpecShared): the      *)
(* directory <targetDir>/<projectName> already holds the files a module    *)
(* that ran earlier, or an earlier run, left there.                        *)
(***************************************************************************)
\* the trees found in the output root when Run begins: files at the top of
\* the root, with text that holds template actions or none
PreRoots ==
    UNION {[paths -> {File(c) : c \in SrcContents}] :
              paths \in SUBSET {<<<<"b">>>>, <<<<"x">>>>}}

InitShared ==
    /\ FreshOrch({}) /\ InitReg /\ InitTwo /\ InitWalk /\ InitCall
    /\ root \in PreRoots
    /\ lastDir = [op |-> None, path |-> <<>>, err |-> None, before |-> EmptyMap,
                  again |-> FALSE, prevErr |-> None]
    /\ nDirCalls = 0

SpecShared == InitShared /\ [][NextWalk]_vars

(***************************************************************************)
(* Properties of the orchestrator (specification Spec).                    *)
(***************************************************************************)
InLog(ev, id) == \E i \in DOMAIN log : log[i] = Event(ev, id)
\* the phases and capabilities as the claims name them
PriorPhase == {ServiceNameBaseProject}
SubsequentPhase == {ServiceNameBaseLocal}
IsMainID(id) == id \notin PriorPhase \cup SubsequentPhase
ImplementsRegistrar(svc) == svc.kind = "registrar"
ImplementsReceiver(svc) == svc.kind = "receiver"
Returned(e) == e.ev \in {"end", "fail"}

\* every Run of a module of set A has begun and returned before position j
AllCompletedBefore(A, j) ==
    \A i \in DOMAIN log :
       (log[i].ev = "begin" /\ log[i].id \in A) =>
          /\ i < j
          /\ \E k \in (i + 1)..(j - 1) : Returned(log[k]) /\ log[k].id = log[i].id

\* C1: in any runAll every prior-phase module's Run has returned before a
\* main-phase module's Run begins, and every main-phase module's Run has
\* returned before the subsequent-phase module's Run begins, whatever the
\* registration order and the iteration order of the main loop.
C1_PhaseOrder ==
    \A j \in DOMAIN log :
       log[j].ev = "begin" =>
          /\ IsMainID(log[j].id) =>
                AllCompletedBefore(PriorPhase, j)
          /\ log[j].id \in SubsequentPhase =>
                AllCompletedBefore({id \in IDs : IsMainID(id)}, j)

C1_Witness ==
    /\ result = "ok"
    /\ \A id \in IDs : InLog("begin", id) /\ InLog("end", id)

\* C4: register returns an error exactly when the identifier is already
\* registered, and the registry keeps mapping every identifier to the
\* instance whose registration first succeeded.
C4_RegisterRejectsDuplicate ==
    /\ lastRegister.svc # NoService =>
          (lastRegister.err <=> lastRegister.before # NoService)
    /\ \A id \in IDs : services[id] = firstReg[id]

C4_Witness ==
    /\ lastRegister.err
    /\ lastRegister.svc.gen = 2
    /\ services[lastRegister.svc.id].gen = 1

\* C5 (as claimed): a registered module without configuration never has
\* SetConfig or Run invoked, and a runAll in which no module call returned
\* an error reports success.
C5_SkipUnconfigured ==
    /\ \A i \in DOMAIN log :
          log[i].ev \in {"SetConfig", "begin"} => HasConfig(log[i].id)
    /\ configSet \subseteq {id \in IDs : HasConfig(id)}
    /\ (pc = "done" /\ ~\E i \in DOMAIN log : log[i].ev \in {"fail", "SetConfigErr"})
          => result = "ok"

\* C6: no RegisterLines or RegisterFile call reaches the registrar after the
\* registrar's own Run has begun, and once that Run has returned nil the
\* rendered script files are the rendering of the maps as they finally are,
\* which hold every contribution that was accepted in this run.
C6_RegistrationsBeforeConsumption ==
    /\ \A i \in DOMAIN log : \A j \in DOMAIN log :
          (log[i] = Event("begin", ServiceNameBaseLocal)
             /\ log[j].ev \in {"RegisterLines", "RegisterFile"}) => j < i
    /\ (ImplementsRegistrar(services[ServiceNameBaseLocal]) /\ InLog("end", ServiceNameBaseLocal)) =>
          /\ \A f \in DOMAIN out : out[f] = RenderRegistry(LocalTemplates[f], registry)
          /\ "Makefile" \in DOMAIN out
          /\ \A id \in IDs :
                (InLog("RegisterFile", id) /\ InLog("end", id)) =>
                   /\ id \in DOMAIN registry.MakeScripts
                   /\ id \in DOMAIN registry.TaskScripts
                   /\ id \in DOMAIN registry.CommitScripts

C6_Witness ==
    /\ result = "ok"
    /\ InLog("RegisterLines", ServiceNameBaseLint)
    /\ InLog("RegisterFile", ServiceNameBaseTest)
    /\ InLog("end", ServiceNameBaseLocal)
    /\ "scripts/lint.sh" \in DOMAIN out

\* C7: a configured main-phase module that implements ScriptReceiver gets
\* SetScriptReceiver right before its Run if and only if the module
\* registered under base_local implements Registrar; without one,
\* SetScriptReceiver is never called and the module still runs.
C7_InjectionIffRegistrar ==
    /\ \A j \in DOMAIN log :
          (log[j].ev = "begin" /\ IsMainID(log[j].id) /\ ImplementsReceiver(services[log[j].id])) =>
             ((j > 1 /\ log[j - 1] = Event("SetScriptReceiver", log[j].id))
                <=> ImplementsRegistrar(services[ServiceNameBaseLocal]))
    /\ \A j \in DOMAIN log :
          log[j].ev = "SetScriptReceiver" =>
             /\ ImplementsRegistrar(services[ServiceNameBaseLocal])
             /\ ImplementsReceiver(services[log[j].id])
             /\ j < Len(log) /\ log[j + 1] = Event("begin", log[j].id)
    /\ result = "ok" =>
          \A id \in Registered(services) :
             (IsMainID(id) /\ HasConfig(id)) => InLog("begin", id)

C7_Witness ==
    /\ result = "ok"
    /\ ~ImplementsRegistrar(services[ServiceNameBaseLocal])
    /\ services[ServiceNameBaseLocal] # NoService
    /\ ImplementsReceiver(services[ServiceNameBaseLint])
    /\ InLog("begin", ServiceNameBaseLint)

\* C8: as soon as a module's Run returns an error, runAll returns an error
\* and no further Run is invoked: the failed Run is the last call made.
C8_AbortOnFirstError ==
    \A i \in DOMAIN log :
       log[i].ev = "fail" => (i = Len(log) /\ pc = "done" /\ result = "err")

C8_Witness ==
    /\ result = "err"
    /\ log[Len(log)] = Event("fail", ServiceNameBaseProject)
    /\ \E id \in Registered(services) \ {ServiceNameBaseProject} : HasConfig(id)

(***************************************************************************)
(* Properties of the stand-alone registrar (specification SpecReg).        *)
(***************************************************************************)
RegisterOps == {"RegisterLines", "RegisterFile"}

\* the maps a Register call of kind op writes, by channel
ChannelMaps(b, op) ==
    IF op = "RegisterLines"
    THEN [c \in {ScriptNameMake, ScriptNameTask, ScriptNameCommit} |->
             CASE c = ScriptNameMake -> b.MakeScripts
               [] c = ScriptNameTask -> b.TaskScripts
               [] OTHER -> b.CommitScripts]
    ELSE [c \in {ScriptNameScript} |-> b.ScriptFiles]

\* no entry that was stored before the last call has changed or disappeared
EntriesKept ==
    \A op \in RegisterOps :
       LET old == ChannelMaps(lastCall.before, op)
           new == ChannelMaps(registry, op)
       IN \A c \in DOMAIN old : \A k \in DOMAIN old[c] :
             k \in DOMAIN new[c] /\ new[c][k] = old[c][k]

\* C3 (as claimed): a second RegisterLines / RegisterFile call under a key
\* that an earlier call of the same kind used always returns a
\* duplicate-registration error, and the stored entry is kept.
C3_SecondCallAlwaysFails ==
    /\ (lastCall.op \in RegisterOps /\ lastCall.reused /\ ~lastCall.panic) => lastCall.err
    /\ EntriesKept

\* C3 (amended): a Register call under a key that is stored in a channel
\* map which is active in the registrar's configuration when the call is
\* made returns a duplicate-registration error, whatever other keys were
\* registered; no call overwrites or merges a stored entry.
C3_SecondCallFailsOnActiveChannel ==
    /\ (lastCall.op \in RegisterOps /\ ~lastCall.panic) =>
          LET old == ChannelMaps(lastCall.before, lastCall.op)
          IN (\E c \in DOMAIN old :
                 /\ c \in Range(lastCall.before.FileList)
                 /\ lastCall.key \in DOMAIN old[c]) => lastCall.err
    /\ EntriesKept

C3_Witness ==
    /\ lastCall.op = "RegisterLines"
    /\ lastCall.reused
    /\ lastCall.err
    /\ lastCall.key = ServiceNameBaseLint
    /\ ServiceNameBaseTest \in DOMAIN registry.MakeScripts
    /\ registry.MakeScripts[ServiceNameBaseLint] # lastCall.lines

(***************************************************************************)
(* Properties of EnsureDir (specification SpecDir).                        *)
(***************************************************************************)
HasDotDot(p) == \E i \in DOMAIN p : p[i] = <<"..">>

\* the number of segments among the first k of p that lie in set S
CountIn(p, k, S) == Cardinality({i \in 1..k : p[i] \in S})

\* somewhere along p more ".." segments than named segments have been read:
\* the cleaned form of p is ".." or begins with "../"
ClimbsAboveRoot(p) ==
    \E k \in DOMAIN p : CountIn(p, k, {<<"..">>}) > CountIn(p, k, {<<"a">>, <<"b">>})

\* C2 (as claimed): EnsureDir on any path that contains a ".." segment
\* returns a path-escape error and changes nothing below the root.
C2_AnyDotDotRejected ==
    (lastDir.op = "EnsureDir" /\ HasDotDot(lastDir.path)) =>
       (lastDir.err = "escape" /\ root = lastDir.before)

\* C2 (amended): EnsureDir on a path whose cleaned form is ".." or begins
\* with "../" returns a path-escape error and changes nothing below the
\* root, not even for leading segments; a path whose ".." segments cancel
\* against earlier named segments is not a path escape.
C2_EscapingPathRejected ==
    /\ (lastDir.op = "EnsureDir" /\ ClimbsAboveRoot(lastDir.path)) =>
          (lastDir.err = "escape" /\ root = lastDir.before)
    /\ (lastDir.op = "EnsureDir" /\ HasDotDot(lastDir.path)
          /\ ~ClimbsAboveRoot(lastDir.path)) =>
          lastDir.err # "escape"

C2_Witness ==
    /\ lastDir.op = "EnsureDir"
    /\ lastDir.path = <<<<"a">>, <<"..">>, <<"..">>>>
    /\ lastDir.err = "escape"
    /\ root = lastDir.before
    /\ <<<<"b">>>> \in DOMAIN root
    /\ <<<<"a">>>> \notin DOMAIN root

(***************************************************************************)
(* Properties of two runs on identical inputs (specification SpecTwoRuns). *)
(***************************************************************************)
\* C10 (as claimed): a second successful run on the inputs of a first
\* successful run leaves the same rendered files with the same content,
\* whatever orders the modules and the map entries were visited in.
C10_RunsIdentical ==
    (runNo = 2 /\ pc = "done" /\ result = "ok" /\ prevResult = "ok") => out = prevOut

(***************************************************************************)
(* Properties of the two-pass walker (specification SpecWalk).             *)
(***************************************************************************)
\* where a source entry is materialized: its rendered path, without the
\* template suffix when the test module walks
C9_Dest(p) ==
    LET r == RenderRelPath(p).path
    IN IF walker.id = ServiceNameBaseTest
          /\ r[Len(r)] # <<>> /\ r[Len(r)][Len(r[Len(r)])] = TemplateSuffix
       THEN Append(SubSeq(r, 1, Len(r) - 1), SubSeq(r[Len(r)], 1, Len(r[Len(r)]) - 1))
       ELSE r

\* the source entries the walking module leaves out
C9_Skipped(p) ==
    /\ walker.id = ServiceNameBaseTest
    /\ walker.style # TestStyleGinkgo
    /\ \E i \in DOMAIN p : \E j \in DOMAIN p[i] : p[i][j] = SuiteFile

\* C9 (as claimed): after a successful two-pass run on an empty output
\* root, every non-skipped source file is found at its rendered path with
\* its content rendered against the same context, and every non-skipped
\* source directory exists at its rendered path.
C9_TwoPassMaterializes ==
    (wpc = "done" /\ wresult = "ok") =>
       \A p \in DOMAIN src :
          ~C9_Skipped(p) =>
             /\ C9_Dest(p) \in DOMAIN root
             /\ IF src[p].kind = "file"
                THEN root[C9_Dest(p)] = File(ExecuteTemplateText(src[p].content).text)
                ELSE root[C9_Dest(p)].kind = "dir"

(***************************************************************************)
(* Channel activation of the stand-alone registrar (specification SpecReg).*)
(***************************************************************************)
\* the channels the configuration in force at the last call lists as active
ActiveChannels == Range(lastCall.before.FileList)

\* the channels a Register call of kind op writes to
TargetChannels(op) == DOMAIN ChannelMaps(NewBaseLocal, op)

\* the four registrar maps of b
FourMaps(b) == <<b.MakeScripts, b.TaskScripts, b.CommitScripts, b.ScriptFiles>>

\* C11: a RegisterLines call on a configured registrar writes only the
\* line-group maps of the channels its FileList lists, a RegisterFile call
\* writes the script-file map only if the script channel is listed, a
\* successful call has stored its lines in every listed channel it targets,
\* and a call that targets no listed channel returns no error and leaves
\* all four maps as they were.
C11_OnlyActiveChannelsWritten ==
    (lastCall.op \in RegisterOps /\ ~lastCall.panic) =>
        /\ \A op \in RegisterOps :
              LET old == ChannelMaps(lastCall.before, op)
                  new == ChannelMaps(registry, op)
              IN \A c \in DOMAIN old :
                    (op # lastCall.op \/ c \notin ActiveChannels) => new[c] = old[c]
        /\ ~lastCall.err =>
              \A c \in TargetChannels(lastCall.op) \cap ActiveChannels :
                 LET m == ChannelMaps(registry, lastCall.op)[c]
                 IN lastCall.key \in DOMAIN m /\ m[lastCall.key] = lastCall.lines
        /\ (TargetChannels(lastCall.op) \cap ActiveChannels = {}) =>
              /\ ~lastCall.err
              /\ FourMaps(registry) = FourMaps(lastCall.before)

\* a RegisterFile call on a registrar without the script channel, after a
\* line-group was stored, came back without error
C11_Witness ==
    /\ lastCall.op = "RegisterFile"
    /\ ~lastCall.panic
    /\ ~lastCall.err
    /\ ScriptNameScript \notin ActiveChannels
    /\ lastCall.before.MakeScripts # EmptyMap
    /\ registry.ScriptFiles = EmptyMap

(***************************************************************************)
(* Idempotence of EnsureDir (specification SpecDir).  lastDir.again tells  *)
(* that the call before the last one was an EnsureDir of the same path,    *)
(* lastDir.prevErr what that call returned.                                *)
(***************************************************************************)
\* C12: an EnsureDir call that repeats the path of the EnsureDir call
\* before it leaves the tree exactly as that call left it and returns what
\* that call returned, so no error after a call that succeeded; EnsureDir
\* of "" and of "." returns no error and creates nothing.
C12_EnsureDirIdempotent ==
    /\ (lastDir.op = "EnsureDir" /\ lastDir.again) =>
          /\ root = lastDir.before
          /\ lastDir.err = lastDir.prevErr
          /\ (lastDir.prevErr = None => lastDir.err = None)
    /\ (lastDir.op = "EnsureDir" /\ lastDir.path \in {<<>>, <<Dot>>}) =>
          /\ lastDir.err = None
          /\ root = lastDir.before

\* the second of two EnsureDir calls of a/b found both directories in place
C12_Witness ==
    /\ lastDir.op = "EnsureDir"
    /\ lastDir.again
    /\ lastDir.path = <<<<"a">>, <<"b">>>>
    /\ lastDir.err = None
    /\ DOMAIN root = {<<<<"a">>>>, <<<<"a">>, <<"b">>>>}
    /\ root = lastDir.before

(***************************************************************************)
(* Failure of pass 1 of the two-pass walker (specification SpecWalk).      *)
(***************************************************************************)
\* the source entries whose handler has returned without error in pass 1
C13_Visited ==
    LET all == WalkDir(src) IN SubSeq(all, 1, Len(all) - Len(todo))

C13_PathFails(p) == RenderRelPath(p).err # None

C13_IsPrefix(q, d) == Len(q) <= Len(d) /\ SubSeq(d, 1, Len(q)) = q

\* C13: pass 1 never passes over an entry whose relative path fails to
\* render, pass 2 only starts (and Run only returns something else than
\* "failed to render path") when every path of the source tree renders,
\* and when pass 1 stopped at an entry whose path fails to render, the
\* output root holds nothing but what the entries visited before it
\* created: every entry of the root lies on the destination of such an
\* entry, and every file holds the unrendered content of such a source file.
C13_RenderPathFailureAborts ==
    /\ wpc = "pass1" =>
          \A i \in DOMAIN C13_Visited : ~C13_PathFails(C13_Visited[i].path)
    /\ (wpc = "pass2" \/ (wpc = "done" /\ wresult # "failed to render path")) =>
          \A p \in DOMAIN src : ~C13_PathFails(p)
    /\ (wpc = "done" /\ wresult = "failed to render path"
          /\ C13_PathFails(Head(todo).path)) =>
          \A q \in DOMAIN root :
             /\ \E i \in DOMAIN C13_Visited :
                   C13_IsPrefix(q, C9_Dest(C13_Visited[i].path))
             /\ root[q].kind = "file" =>
                   \E i \in DOMAIN C13_Visited :
                      /\ C9_Dest(C13_Visited[i].path) = q
                      /\ root[q] = C13_Visited[i].entry

\* pass 1 stopped at a directory whose name does not parse; the file below
\* that directory, which the walk would have visited next, was never created
C13_Witness ==
    /\ wpc = "done"
    /\ wresult = "failed to render path"
    /\ Len(todo) = 2
    /\ todo[1].path = <<<<Unclosed>>>>
    /\ todo[1].entry = Dir
    /\ todo[2].path = <<<<Unclosed>>, <<"x">>>>
    /\ todo[2].entry.kind = "file"
    /\ root = EmptyMap

(***************************************************************************)
(* The source/target guard of SetConfig (specification SpecCfg).           *)
(***************************************************************************)
\* the directory a path string names: from the root or from the working
\* directory, every segment in turn steps down, stays, or steps up (the
\* root is its own parent)
RECURSIVE C14_Walk(_, _)
C14_Walk(at, segs) ==
    IF segs = <<>> THEN at
    ELSE C14_Walk(CASE Head(segs) = Dot -> at
                    [] Head(segs) = DotDot ->
                           IF at = <<>> THEN at ELSE SubSeq(at, 1, Len(at) - 1)
                    [] OTHER -> Append(at, Head(segs)),
                  Tail(segs))

C14_Location(p) == C14_Walk(IF p.abs THEN <<>> ELSE Cwd, p.segs)

\* C14: SetConfig of a generator module returns an error whenever its
\* source path and the target directory name the same location, however
\* the two are spelled, and returns no error for a configuration of the
\* right type whose paths name different locations.
C14_SamePathRejected ==
    lastSetConfig.id # None =>
       /\ C14_Location(lastSetConfig.source) = C14_Location(lastSetConfig.target)
             => lastSetConfig.err # None
       /\ (lastSetConfig.typed
             /\ C14_Location(lastSetConfig.source) # C14_Location(lastSetConfig.target))
             => lastSetConfig.err = None

\* source /b/../b, target /b: rejected by the comparison
C14_Witness ==
    /\ lastSetConfig.typed
    /\ lastSetConfig.source = PathString(TRUE, <<<<"b">>, DotDot, <<"b">>>>)
    /\ lastSetConfig.target = PathString(TRUE, <<<<"b">>>>)
    /\ lastSetConfig.err = "compare"

(***************************************************************************)
(* What the lint module registers (specification SpecLint).                *)
(***************************************************************************)
\* the commands of the linters the configuration of the last Run enables
C15_EnabledCmds ==
    {lastLint.linters[n].Cmd : n \in {m \in DOMAIN lastLint.linters :
                                         lastLint.linters[m].Enabled}}

\* lines holds every command of cmds once and nothing else
C15_Exactly(lines, cmds) ==
    Range(lines) = cmds /\ Len(lines) = Cardinality(cmds)

\* C15: after a Run of the lint module with a registrar injected that
\* returned no error, the registrar holds under base_lint a line-group, and
\* under the lint script file name a script file, of exactly the commands
\* of the enabled linters.
C15_OnlyEnabledLintersRegistered ==
    (lastLint.ran /\ lastLint.injected /\ ~lastLint.err) =>
        /\ ServiceNameBaseLint \in DOMAIN lastLint.b.MakeScripts
        /\ C15_Exactly(lastLint.b.MakeScripts[ServiceNameBaseLint], C15_EnabledCmds)
        /\ ScriptFileLint \in DOMAIN lastLint.b.ScriptFiles
        /\ C15_Exactly(lastLint.b.ScriptFiles[ScriptFileLint], C15_EnabledCmds)

(***************************************************************************)
(* Registration from the declarations (specification SpecBoot).            *)
(***************************************************************************)
\* the module kinds: the four generation modules
C16_KnownKinds ==
    {ServiceNameBaseProject, ServiceNameBaseLint, ServiceNameBaseTest, ServiceNameBaseLocal}

C16_EnabledIDs == {boot.decls[i].ID : i \in {j \in DOMAIN boot.decls : boot.decls[j].Enabled}}

C16_NoRepeatedID ==
    \A i \in DOMAIN boot.decls : \A j \in DOMAIN boot.decls :
       boot.decls[i].ID = boot.decls[j].ID => i = j

C17_RepeatedEnabledKnown ==
    \E i \in DOMAIN boot.decls : \E j \in DOMAIN boot.decls :
       /\ i < j
       /\ boot.decls[i].Enabled /\ boot.decls[j].Enabled
       /\ boot.decls[i].ID = boot.decls[j].ID
       /\ boot.decls[i].ID \in C16_KnownKinds

C18_NoPlaceholders(text) ==
    \A i \in DOMAIN text : text[i] \notin {PlaceholderLower, PlaceholderUnknown, Unclosed}

\* C18: rendering a text without template actions returns no error and
\* exactly that text, whatever the data context.
C18_PlainTextUnchanged ==
    (lastRender.called /\ C18_NoPlaceholders(lastRender.text)) =>
        /\ lastRender.err = None
        /\ lastRender.out = lastRender.text

\* the text `y<y` rendered against a context without fields
C18_Witness ==
    /\ lastRender.called
    /\ lastRender.text = <<"y", "<", "y">>
    /\ DOMAIN lastRender.ctx = {}
    /\ lastRender.err = None
    /\ lastRender.out = <<"y", "<", "y">>

(***************************************************************************)
(* Registration with the config manager (specification SpecMgr).           *)
(***************************************************************************)
\* C19: a Register call for an identifier that already has an entry returns
\* an error, and the entry stored under every identifier is the first one
\* that was registered successfully.
C19_RegisterRejectsDuplicateConfig ==
    /\ (mgr.n > 0 /\ mgr.last.cfg.id \in DOMAIN mgr.last.before) => mgr.last.err
    /\ \A id \in DOMAIN mgr.services : mgr.services[id] = mgr.first[id]

(***************************************************************************)
(* Failure of configuration assignment (specification Spec).               *)
(***************************************************************************)
\* C20: as soon as a module's SetConfig returns an error, runAll returns an
\* error; that SetConfig is the last call runAll made, so no module's Run
\* was or will be invoked, whatever SetConfig calls succeeded before it.
C20_SetConfigFailureRunsNothing ==
    \A i \in DOMAIN log :
       log[i].ev = "SetConfigErr" =>
          /\ i = Len(log)
          /\ pc = "done"
          /\ result = "err"
          /\ \A j \in DOMAIN log : log[j].ev \in {"SetConfig", "SetConfigErr"}

\* SetConfig of base_lint succeeded, then SetConfig of base_local failed
C20_Witness ==
    /\ result = "err"
    /\ Len(log) = 3
    /\ log[1] = Event("SetConfig", ServiceNameBaseLint)
    /\ log[2] = Event("SetConfig", ServiceNameBaseLocal)
    /\ log[3] = Event("SetConfigErr", ServiceNameBaseLocal)

(***************************************************************************)
(* Failure of pass 2 of the two-pass walker (specification SpecWalk).      *)
(***************************************************************************)
\* the entries of the output root the walk of pass 2 has not passed yet
C21_Pending == {todo[i].path : i \in DOMAIN todo}

\* the content of a file of the output root as pass 1 left it
C21_Raw(q) == walkHist.pass1[q].content

\* C21: pass 2 never passes over a file whose content fails to render and
\* Run returns nil only when every file rendered; when Run returned "failed
\* to render content", the walk stopped at a file whose content fails to
\* render, the output root holds the entries pass 1 left, every file the
\* walk passed before holds its rendered content, and the failing file and
\* every file not yet visited hold the bytes pass 1 wrote.
C21_ContentFailureKeepsPartialOutput ==
    /\ (wpc = "pass2" \/ (wpc = "done" /\ wresult = "ok")) =>
          \A q \in DOMAIN walkHist.pass1 \ C21_Pending :
             walkHist.pass1[q].kind = "file" =>
                /\ ExecuteTemplateText(C21_Raw(q)).err = None
                /\ root[q] = File(ExecuteTemplateText(C21_Raw(q)).text)
    /\ (wpc = "done" /\ wresult = "failed to render content") =>
          /\ todo # <<>>
          /\ Head(todo).entry.kind = "file"
          /\ ExecuteTemplateText(C21_Raw(Head(todo).path)).err # None
          /\ DOMAIN root = DOMAIN walkHist.pass1
          /\ \A q \in DOMAIN root :
                IF q \in C21_Pending \/ walkHist.pass1[q].kind = "dir"
                THEN root[q] = walkHist.pass1[q]
                ELSE root[q] = File(ExecuteTemplateText(C21_Raw(q)).text)

\* pass 2 rendered `x`, stopped at `x.tmpl` whose content names an unknown
\* field, and left it as pass 1 wrote it
C21_Witness ==
    /\ wpc = "done"
    /\ wresult = "failed to render content"
    /\ walker.id = ServiceNameBaseProject
    /\ Len(todo) = 1
    /\ todo[1].path = <<<<"x", TemplateSuffix>>>>
    /\ DOMAIN root = {<<<<"x">>>>, <<<<"x", TemplateSuffix>>>>}
    /\ walkHist.pass1[<<<<"x">>>>] = File(<<"y", PlaceholderLower>>)
    /\ root[<<<<"x">>>>] = File(<<"y", "x">>)
    /\ root[<<<<"x", TemplateSuffix>>>>] = File(<<PlaceholderUnknown>>)

(***************************************************************************)
(* The suite filter of the test module (specification SpecWalk).           *)
(***************************************************************************)
\* pass 1 has returned without error
C22_Pass1Over ==
    wpc = "pass2" \/ (wpc = "done" /\ wresult \in {"ok", "failed to render content"})

\* a path that names a suite-bootstrap file
C22_IsSuite(p) == \E i \in DOMAIN p : \E j \in DOMAIN p[i] : p[i][j] = SuiteFile

\* the source file p stands in the output root as pass 1 left it: a file
\* at its destination that holds the raw content of a source file with
\* that destination
C22_Materialized(p) ==
    /\ C9_Dest(p) \in DOMAIN walkHist.pass1
    /\ \E p2 \in DOMAIN src :
          /\ src[p2].kind = "file"
          /\ C9_Dest(p2) = C9_Dest(p)
          /\ walkHist.pass1[C9_Dest(p)] = src[p2]

\* C22: when pass 1 of the test module has returned on an output root that
\* was empty, then with a style other than ginkgo the root holds no entry
\* whose path names a suite file while every other source file stands at
\* its destination with raw content, and with the ginkgo style every
\* source file, suite files included, stands at its destination.
C22_SuiteFilesOnlyForGinkgo ==
    (C22_Pass1Over /\ walker.id = ServiceNameBaseTest) =>
       IF walker.style # TestStyleGinkgo
       THEN /\ \A q \in DOMAIN walkHist.pass1 : ~C22_IsSuite(q)
            /\ \A p \in DOMAIN src :
                  (src[p].kind = "file" /\ ~C22_IsSuite(RenderRelPath(p).path))
                     => C22_Materialized(p)
       ELSE \A p \in DOMAIN src : src[p].kind = "file" => C22_Materialized(p)

\* the test module with the go style walked `suite_test.go` and `x`: only
\* `x` was created
C22_Witness ==
    /\ wpc = "done"
    /\ wresult = "ok"
    /\ walker = [id |-> ServiceNameBaseTest, style |-> TestStyleGo]
    /\ DOMAIN src = {<<<<SuiteFile>>>>, <<<<"x">>>>}
    /\ src[<<<<SuiteFile>>>>].kind = "file"
    /\ src[<<<<"x">>>>].kind = "file"
    /\ DOMAIN walkHist.pass1 = {<<<<"x">>>>}
    /\ DOMAIN root = {<<<<"x">>>>}

(***************************************************************************)
(* The template suffix (specification SpecWalk).                           *)
(***************************************************************************)
\* the file name of the path ends with the template suffix
C23_Suffixed(p) ==
    /\ p # <<>>
    /\ p[Len(p)] # <<>>
    /\ p[Len(p)][Len(p[Len(p)])] = TemplateSuffix

\* the path with the last piece of its file name removed
C23_Stripped(p) ==
    Append(SubSeq(p, 1, Len(p) - 1), SubSeq(p[Len(p)], 1, Len(p[Len(p)]) - 1))

\* C23 (as claimed): when pass 1 has returned on an output root that was
\* empty, every source file that was not left out and whose rendered name
\* ends with `.tmpl` stands as a file at its rendered path with the suffix
\* removed, and the root holds nothing at the rendered path with the suffix.
C23_TemplateSuffixStripped ==
    C22_Pass1Over =>
       \A p \in DOMAIN src :
          (src[p].kind = "file" /\ ~C9_Skipped(p)
             /\ C23_Suffixed(RenderRelPath(p).path)) =>
             /\ C23_Stripped(RenderRelPath(p).path) \in DOMAIN walkHist.pass1
             /\ walkHist.pass1[C23_Stripped(RenderRelPath(p).path)].kind = "file"
             /\ RenderRelPath(p).path \notin DOMAIN walkHist.pass1

(***************************************************************************)
(* The root handles of the modules (specification Spec).                   *)
(***************************************************************************)
\* C24 (as claimed): when runAll has returned, with or without an error,
\* no module holds a root handle that its Run opened and did not close.
C24_RootsClosedAtEnd == pc = "done" => openRoots = {}

(***************************************************************************)
(* Every configured module runs once (specification Spec).                 *)
(***************************************************************************)
\* the number of times runAll invoked the Run of module id
C25_Runs(id) == Cardinality({i \in DOMAIN log : log[i] = Event("begin", id)})

\* C25: when runAll has returned nil, the Run of every registered module
\* that has a configuration was invoked exactly once.
C25_ConfiguredModulesRunOnce ==
    (pc = "done" /\ result = "ok") =>
       \A id \in IDs :
          (services[id] # NoService /\ id \in cfgRegistrars \cup cfgServices) =>
             C25_Runs(id) = 1

\* a successful run of a prior-phase, two main-phase and the
\* subsequent-phase module, all configured
C25_Witness ==
    /\ pc = "done"
    /\ result = "ok"
    /\ \A id \in IDs : services[id] # NoService
    /\ cfgRegistrars \cup cfgServices = IDs
    /\ \A id \in IDs : C25_Runs(id) = 1

(***************************************************************************)
(* The injected registrar has a configuration (specification Spec).        *)
(***************************************************************************)
\* C26 (as claimed): whenever runAll injects the registrar into a module,
\* and whenever a module calls RegisterLines or RegisterFile on it, the
\* SetConfig of the registrar module was invoked before in this runAll.
C26_RegistrarConfiguredBeforeUse ==
    \A i \in DOMAIN log :
       log[i].ev \in {"SetScriptReceiver", "RegisterLines", "RegisterFile"} =>
          \E j \in 1..(i - 1) : log[j] = Event("SetConfig", ServiceNameBaseLocal)

(***************************************************************************)
(* Failing RegisterLines calls (specification SpecRegLines).               *)
(***************************************************************************)
\* the three line-group maps of a registrar
C27_LineMaps(b) == <<b.MakeScripts, b.TaskScripts, b.CommitScripts>>

\* C27 (as claimed): a RegisterLines call that returned an error left the
\* three line-group maps as they were before the call, and a RegisterLines
\* call under an identifier no earlier RegisterLines call used returned nil.
C27_FailedRegisterLinesChangesNothing ==
    (lastCall.op = "RegisterLines" /\ ~lastCall.panic) =>
       /\ lastCall.err => C27_LineMaps(registry) = C27_LineMaps(lastCall.before)
       /\ ~lastCall.reused => ~lastCall.err

(***************************************************************************)
(* Destinations of the source entries (specification SpecWalk).            *)
(***************************************************************************)
\* C28 (as claimed): when pass 1 has returned, no two distinct source
\* entries that were not left out were materialized at the same
\* destination path.
C28_DestinationsDistinct ==
    C22_Pass1Over =>
       \A p \in DOMAIN src : \A q \in DOMAIN src :
          (p # q /\ ~C9_Skipped(p) /\ ~C9_Skipped(q)) => C9_Dest(p) # C9_Dest(q)

(***************************************************************************)
(* The files of other modules (specification SpecShared).                  *)
(***************************************************************************)
\* the destinations of the source entries of the walking module
C29_OwnDestinations ==
    {C9_Dest(p) : p \in {q \in DOMAIN src : ~C13_PathFails(q) /\ ~C9_Skipped(q)}}

\* C29 (as claimed): from the moment Run began, every file that was already
\* in the output root and is not a destination of a source entry of the
\* walking module is in the root with the content it had when Run began.
C29_ForeignFilesUntouched ==
    wpc \in {"pass1", "pass2", "done"} =>
       \A q \in DOMAIN walkHist.begin :
          (walkHist.begin[q].kind = "file" /\ q \notin C29_OwnDestinations) =>
             /\ q \in DOMAIN root
             /\ root[q] = walkHist.begin[q]

(***************************************************************************)
(* The output root and the source tree (specification SpecCfg).            *)
(***************************************************************************)
\* the directory at location d is the directory at location s or lies in it
C30_Within(d, s) == Len(s) <= Len(d) /\ SubSeq(d, 1, Len(s)) = s

\* C30 (as claimed): the output root that Run opens after SetConfig
\* returned nil is neither the source template tree nor a directory in it.
C30_RootOutsideSource ==
    lastSetConfig.ran =>
       ~C30_Within(lastSetConfig.rootDir.segs, C14_Location(lastSetConfig.source))

====
